---- MODULE Spec2Model ----
(***************************************************************************)
(* Model of the subreddit-health request handler                           *)
(* (src/app/api/subreddit-health/route.ts) together with the text          *)
(* generation client it calls (generateText, src/app/page.tsx 482-503).    *)
(*                                                                         *)
(* One action per await point of POST / analyzeSubredditHealth: the        *)
(* synchronous code between two awaits is part of the action that resumes  *)
(* it.  The key/value store, the forum API and the text-generation API are *)
(* the environment: every call either rejects with one of a few thrown     *)
(* values or resolves with one of a few results.                           *)
(*                                                                         *)
(* The analyzer component of the browser page (src/unnamed/part_001,       *)
(* SubredditAnalyzer; the home page of src/app/page.tsx has the same       *)
(* handleSubmit) is the variable `ui`: one action per event handler,       *)
(* effect and await point of handleSubmit.                                 *)
(*                                                                         *)
(* Strings are TLC strings (\o, Len and SubSeq work on them), so template  *)
(* strings and String.prototype.includes are computed, not assumed.        *)
(* Optional values (undefined) are sequences of length 0 or 1.             *)
(***************************************************************************)
EXTENDS Integers, Sequences, FiniteSets, TLC

VARIABLES
    kv,        \* the key/value store: a function from the keys present to [value, ttl]
    rq,        \* per handler invocation: its position (pc) and local variables
    resp,      \* per handler invocation: the HTTP response it produced (<<>> before)
    gh,        \* per handler invocation: history of the calls it made (not program state)
    started,   \* number of requests received so far
    app,       \* one application of a function of the program: its name, argument, result
    ui         \* the analyzer component in the browser: its props, its state, its requests

vars == <<kv, rq, resp, gh, started, app, ui>>

(***************************** bounds **************************************)
\* number of requests received in one behaviour
MaxRequests == 2
\* the `limit` passed to getHot/getTop (MAX_POSTS, 15 in the source), scaled down
MaxPosts == 2
\* the `limit` passed to expandReplies (MAX_COMMENTS, 10 in the source), scaled down
MaxComments == 2

\* the largest comment count handed to getOverallMood
MaxCount == 10

\* number of times handleSubmit is invoked in one behaviour of the page
MaxSubmits == 2

\* the longest `comments` array in a classifier response
MaxVerdicts == 3

\* handler invocations; Spec serves them one at a time through slot 1
Handlers == {1, 2}
SeqHandlers == {1}

(************************** program constants ******************************)
CACHE_TTL == 30 * 60
POST_CACHE_TTL == 60 * 60

FALLBACK_SENTENCE ==
    "This community shows typical engagement patterns for its size and topic focus."

(****************************** strings ************************************)
\* String.prototype.includes
Includes(s, sub) ==
    \E k \in 1..(Len(s) - Len(sub) + 1) : SubSeq(s, k, k + Len(sub) - 1) = sub

Take(s, n) == SubSeq(s, 1, IF Len(s) < n THEN Len(s) ELSE n)

(************************** thrown values **********************************)
\* A thrown value: isError is `instanceof Error`; statusCode and message are optional.
Thrown(isErr, code, msg) == [isError |-> isErr, statusCode |-> code, message |-> msg]

\* new Error(msg)
NewError(msg) == Thrown(TRUE, <<>>, <<msg>>)

\* the TypeError of a property read on null / an iteration over undefined
TypeError(msg) == Thrown(TRUE, <<>>, <<msg>>)

\* what the forum client rejects with when the subreddit is unknown or private
NotFoundErrors ==
    { Thrown(TRUE, <<404>>, <<"Not Found">>),
      Thrown(TRUE, <<403>>, <<"Forbidden">>),
      Thrown(TRUE, <<>>, <<"Request failed with status code 404">>),
      Thrown(FALSE, <<>>, <<"subreddit not found">>) }

\* what any upstream call (forum, store, text generation) may reject with otherwise
OtherErrors ==
    { Thrown(TRUE, <<503>>, <<"Service Unavailable">>),
      Thrown(TRUE, <<>>, <<"The requested resource does not exist">>),
      Thrown(FALSE, <<>>, <<>>) }

(**************************** JS numbers ***********************************)
\* A JS number that may be NaN, and its JSON image (JSON.stringify turns NaN into null).
Num(n) == [t |-> "num", n |-> n]
NaN == [t |-> "NaN", n |-> 0]
JsonNullNumber == [t |-> "null", n |-> 0]

\* Math.round(a / b): round half up; 0/0 is NaN (b = 0 only when there are no posts,
\* and then every total a is 0)
MathRoundDiv(a, b) == IF b = 0 THEN NaN ELSE Num((2 * a + b) \div (2 * b))

Max(a, b) == IF a > b THEN a ELSE b

(************************* forum content ***********************************)
\* upvote_ratio is the fraction ratioNum / ratioDen
P1 == [id |-> "p1", ups |-> 0, num_comments |-> 0, ratioNum |-> 0, ratioDen |-> 1]
P2 == [id |-> "p2", ups |-> 100, num_comments |-> 3, ratioNum |-> 8, ratioDen |-> 10]
P3 == [id |-> "p3", ups |-> 10, num_comments |-> 1, ratioNum |-> 67, ratioDen |-> 100]

\* what a subreddit may hold when it is listed; the API returns the first `limit` posts
ForumContents == { <<>>, <<P1>>, <<P2>>, <<P3, P2>>, <<P1, P2, P3>> }

Comment(text) == [body |-> <<text>>]
NoBodyComment == [body |-> <<>>]

\* the top-level replies of each post; expandReplies returns the first `limit` of them
RepliesOf(id) ==
    CASE id = "p1" -> <<>>
      [] id = "p2" -> << Comment("LOL you could try"), NoBodyComment, Comment("Shut up") >>
      [] OTHER -> << Comment("what an idiot") >>

(*********************** text-generation client ****************************)
\* A message content is a string: either a literal text that is not JSON, or the
\* JSON text of a value v (so that JSON.parse gives v back).
Lit(text) == [lit |-> text]
JsonText(v) == [jsonOf |-> v]
JsonNull == [t |-> "null"]
JsonObject(o) == [t |-> "object", o |-> o]
EmptyObject == JsonObject(<<>>)

IsLit(c) == "lit" \in DOMAIN c
\* JS truthiness of a string
TruthyContent(c) == IF IsLit(c) THEN c.lit # "" ELSE TRUE

\* outcomes of an async call
Return(v) == [threw |-> FALSE, value |-> v]
Throw(e) == [threw |-> TRUE, err |-> e]

\* HTTP outcomes of the completion request
Rejects(e) == [kind |-> "reject", err |-> e]
ErrorBody == [kind |-> "noChoices"]
Choices(cs) == [kind |-> "choices", choices |-> cs]
Content(c) == Choices(<< <<c>> >>)

\* generateText: json.choices[0]?.message?.content || null   (null is <<>>)
generateText(reply) ==
    CASE reply.kind = "reject" -> Throw(reply.err)
      [] reply.kind = "noChoices" ->
            Throw(TypeError("Cannot read properties of undefined (reading '0')"))
      [] OTHER ->
            IF Len(reply.choices) = 0 THEN Return(<<>>)
            ELSE LET c == reply.choices[1]
                 IN  IF c # <<>> /\ TruthyContent(c[1]) THEN Return(c) ELSE Return(<<>>)

\* JSON.parse of a content string
JSONParse(c) ==
    IF IsLit(c) THEN Throw(NewError("SyntaxError: Unexpected token")) ELSE Return(c.jsonOf)

(************************* comment analysis ********************************)
Analysis(r, c, t, n, tot) ==
    [ridicule |-> r, constructive |-> c, toxic |-> t, neutral |-> n, total |-> tot]

ZeroAnalysis == Analysis(0, 0, 0, 0, 0)

UpperCase == "ABCDEFGHIJKLMNOPQRSTUVWXYZ"
LowerCase == "abcdefghijklmnopqrstuvwxyz"

LowerChar(ch) ==
    IF \E k \in 1..26 : SubSeq(UpperCase, k, k) = ch
    THEN LET k == CHOOSE k \in 1..26 : SubSeq(UpperCase, k, k) = ch
         IN  SubSeq(LowerCase, k, k)
    ELSE ch

RECURSIVE toLowerCase(_)
toLowerCase(s) ==
    IF Len(s) = 0 THEN s
    ELSE LowerChar(SubSeq(s, 1, 1)) \o toLowerCase(SubSeq(s, 2, Len(s)))

\* faulty variant: the body is searched as written, without lower-casing
BodyTextAsWritten(c) == IF c.body = <<>> THEN "" ELSE c.body[1]
\* c.body?.toLowerCase() || ""
BodyText(c) == IF c.body = <<>> THEN "" ELSE toLowerCase(c.body[1])

\* faulty variant: neutral is computed without subtracting the ridicule count
fallbackAnalysisForgetsRidicule(comments) ==
    LET IsRidicule(c) == Includes(BodyText(c), "lol") \/ Includes(BodyText(c), "this is dumb")
        IsConstructive(c) == \/ Includes(BodyText(c), "try")
                             \/ Includes(BodyText(c), "suggest")
                             \/ Includes(BodyText(c), "could")
        IsToxic(c) == Includes(BodyText(c), "idiot") \/ Includes(BodyText(c), "shut up")
        ridicule == Cardinality({k \in DOMAIN comments : IsRidicule(comments[k])})
        constructive == Cardinality({k \in DOMAIN comments : IsConstructive(comments[k])})
        toxic == Cardinality({k \in DOMAIN comments : IsToxic(comments[k])})
    IN  Analysis(ridicule, constructive, toxic,
                 Len(comments) - (constructive + toxic), Len(comments))
\* lines 279-306
fallbackAnalysis(comments) ==
    LET IsRidicule(c) == Includes(BodyText(c), "lol") \/ Includes(BodyText(c), "this is dumb")
        IsConstructive(c) == \/ Includes(BodyText(c), "try")
                             \/ Includes(BodyText(c), "suggest")
                             \/ Includes(BodyText(c), "could")
        IsToxic(c) == Includes(BodyText(c), "idiot") \/ Includes(BodyText(c), "shut up")
        ridicule == Cardinality({k \in DOMAIN comments : IsRidicule(comments[k])})
        constructive == Cardinality({k \in DOMAIN comments : IsConstructive(comments[k])})
        toxic == Cardinality({k \in DOMAIN comments : IsToxic(comments[k])})
    IN  Analysis(ridicule, constructive, toxic,
                 Len(comments) - (constructive + toxic + ridicule), Len(comments))

\* faulty variant: the mood "aggressive" is counted as ridicule too
CountResponseAggressive(comments, response) ==
    LET parsed == JSONParse(IF response = <<>> THEN JsonText(EmptyObject) ELSE response[1])
    IN  IF parsed.threw THEN Return(fallbackAnalysis(comments))
        ELSE IF parsed.value.t = "null"
        THEN Throw(TypeError("Cannot read properties of null (reading 'comments')"))
        ELSE IF "comments" \notin DOMAIN parsed.value.o
        THEN Throw(TypeError("analysisResults.comments is not iterable"))
        ELSE LET arr == parsed.value.o.comments
                 ridicule == Cardinality({k \in DOMAIN arr :
                                            arr[k].mood \in {"sarcastic", "aggressive"}})
                 constructive == Cardinality({k \in DOMAIN arr : arr[k].constructive})
                 toxic == Cardinality({k \in DOMAIN arr : arr[k].toxic})
             IN  Return(Analysis(ridicule, constructive, toxic,
                                 Len(comments) - (constructive + toxic + ridicule),
                                 Len(comments)))
\* analyzeComments from line 246 on: `response` is what generateText resolved with
CountResponse(comments, response) ==
    LET parsed == JSONParse(IF response = <<>> THEN JsonText(EmptyObject) ELSE response[1])
    IN  IF parsed.threw THEN Return(fallbackAnalysis(comments))
        ELSE IF parsed.value.t = "null"
        THEN Throw(TypeError("Cannot read properties of null (reading 'comments')"))
        ELSE IF "comments" \notin DOMAIN parsed.value.o
        THEN Throw(TypeError("analysisResults.comments is not iterable"))
        ELSE LET arr == parsed.value.o.comments
                 ridicule == Cardinality({k \in DOMAIN arr : arr[k].mood = "sarcastic"})
                 constructive == Cardinality({k \in DOMAIN arr : arr[k].constructive})
                 toxic == Cardinality({k \in DOMAIN arr : arr[k].toxic})
             IN  Return(Analysis(ridicule, constructive, toxic,
                                 Len(comments) - (constructive + toxic + ridicule),
                                 Len(comments)))

\* faulty variant: the early return for an empty list is never taken
NoCommentsNever(comments) == FALSE
\* line 181: comments.length === 0
NoComments(comments) == Len(comments) = 0

\* analyzeComments(comments) when the completion request has outcome `reply`
\* (no request is made for an empty list)
analyzeComments(comments, reply) ==
    IF NoComments(comments) THEN Return(ZeroAnalysis)
    ELSE LET g == generateText(reply)
         IN  IF g.threw THEN Throw(g.err) ELSE CountResponse(comments, g.value)

(*************************** mood and summary ******************************)
\* faulty variant: a ratio of exactly 3 already counts as supportive
getOverallMoodInclusive(constructive, toxic) ==
    IF constructive >= 3 * (toxic + 1) THEN "supportive"
    ELSE IF constructive > toxic + 1 THEN "mixed"
    ELSE "hostile"
\* lines 169-174: ratio = constructive / (toxic + 1), compared without dividing
getOverallMood(constructive, toxic) ==
    IF constructive > 3 * (toxic + 1) THEN "supportive"
    ELSE IF constructive > toxic + 1 THEN "mixed"
    ELSE "hostile"

\* the text of a content string
ContentString(c) == IF IsLit(c) THEN c.lit ELSE "{...}"

\* faulty variant: an empty completion is returned as it is, without the `|| fallback`
generateCommunityVibeSummaryNoDefault(reply) ==
    LET g == generateText(reply)
    IN  IF g.threw THEN FALLBACK_SENTENCE
        ELSE IF g.value # <<>> THEN ContentString(g.value[1]) ELSE ""
\* generateCommunityVibeSummary when the completion request has outcome `reply`
generateCommunityVibeSummary(reply) ==
    LET g == generateText(reply)
    IN  IF g.threw THEN FALLBACK_SENTENCE
        ELSE IF g.value # <<>> THEN ContentString(g.value[1]) ELSE FALLBACK_SENTENCE

(**************************** aggregation **********************************)
ZeroAcc ==
    [ignored |-> 0, ridicule |-> 0, constructive |-> 0, toxic |-> 0, neutral |-> 0,
     totalComments |-> 0, totalUpvotes |-> 0, totalDownvotes |-> 0]

\* faulty variant: the estimate is truncated, not rounded
EstimatedDownsTruncates(post) ==
    IF post.ratioNum > 0
    THEN Max(0, (post.ups * post.ratioDen - post.ups * post.ratioNum) \div post.ratioNum)
    ELSE 0
\* lines 100-105: Math.max(0, Math.round(totalVotes - ups)), totalVotes = ups / ratio
EstimatedDowns(post) ==
    IF post.ratioNum > 0
    THEN Max(0, MathRoundDiv(post.ups * post.ratioDen - post.ups * post.ratioNum,
                             post.ratioNum).n)
    ELSE Max(0, 0)

\* faulty variant: the upvote total is assigned, not added
BeginPostAssignsUpvotes(acc, post) ==
    [acc EXCEPT !.ignored = @ + (IF post.num_comments = 0 /\ post.ups = 0 THEN 1 ELSE 0),
                !.totalUpvotes = post.ups,
                !.totalDownvotes = @ + EstimatedDowns(post)]
\* lines 98-108: the synchronous head of the loop body for `post`
BeginPost(acc, post) ==
    [acc EXCEPT !.ignored = @ + (IF post.num_comments = 0 /\ post.ups = 0 THEN 1 ELSE 0),
                !.totalUpvotes = @ + post.ups,
                !.totalDownvotes = @ + EstimatedDowns(post)]

\* faulty variant: the comment total is assigned, not added
AccumulateAssignsTotal(acc, a) ==
    [acc EXCEPT !.ridicule = @ + a.ridicule,
                !.constructive = @ + a.constructive,
                !.toxic = @ + a.toxic,
                !.neutral = @ + a.neutral,
                !.totalComments = a.total]
\* lines 135-139
Accumulate(acc, a) ==
    [acc EXCEPT !.ridicule = @ + a.ridicule,
                !.constructive = @ + a.constructive,
                !.toxic = @ + a.toxic,
                !.neutral = @ + a.neutral,
                !.totalComments = @ + a.total]

\* lines 142-158
MakeData(acc, n) ==
    [ignoredPercent |-> MathRoundDiv(acc.ignored * 100, n),
     avgUpvotes |-> MathRoundDiv(acc.totalUpvotes, n),
     avgDownvotes |-> MathRoundDiv(acc.totalDownvotes, n),
     upvoteRatio |-> IF acc.totalUpvotes + acc.totalDownvotes > 0
                     THEN MathRoundDiv(acc.totalUpvotes * 100,
                                       acc.totalUpvotes + acc.totalDownvotes)
                     ELSE Num(0),
     commentStats |-> Analysis(acc.ridicule, acc.constructive, acc.toxic, acc.neutral,
                               acc.totalComments),
     overallMood |-> getOverallMood(acc.constructive, acc.toxic)]

\* lines 163-166: { ...data, vibeSummary }
WithVibe(data, vibe) ==
    [ignoredPercent |-> data.ignoredPercent, avgUpvotes |-> data.avgUpvotes,
     avgDownvotes |-> data.avgDownvotes, upvoteRatio |-> data.upvoteRatio,
     commentStats |-> data.commentStats, overallMood |-> data.overallMood,
     vibeSummary |-> vibe]

\* JSON image of a report (NextResponse.json and kv.setex both serialise it)
JsonNumber(x) == IF x.t = "NaN" THEN JsonNullNumber ELSE x
ToJSON(report) ==
    [report EXCEPT !.ignoredPercent = JsonNumber(@), !.avgUpvotes = JsonNumber(@),
                   !.avgDownvotes = JsonNumber(@), !.upvoteRatio = JsonNumber(@)]

(****************************** the store **********************************)
\* faulty variant: the report key forgets the filter
ReportKeyNoFilter(subreddit, filter) == "subreddit_health:" \o subreddit
\* faulty variant: the post key forgets the post id
PostKeyNoId(id) == "post_comments:"
ReportKey(subreddit, filter) == "subreddit_health:" \o subreddit \o ":" \o filter
PostKey(id) == "post_comments:" \o id

\* faulty variant: kv.get resolves with null whatever the store holds
CacheGetNeverFinds(store, key) == <<>>
\* kv.get: null (<<>>) when the key is absent
CacheGet(store, key) == IF key \in DOMAIN store THEN <<store[key].value>> ELSE <<>>
\* faulty variant: the hit test never succeeds
IsHitNever(cached) == FALSE
\* `if (cachedResult)` / `if (!commentAnalysis)`: stored values are objects, so truthy
IsHit(cached) == cached # <<>>
\* faulty variant: a key that is present is left as it is (set-if-absent)
CacheSetexIfAbsent(store, key, ttl, value) ==
    [k \in DOMAIN store \cup {key} |->
        IF k \in DOMAIN store THEN store[k] ELSE [value |-> value, ttl |-> ttl]]
\* kv.setex
CacheSetex(store, key, ttl, value) ==
    [k \in DOMAIN store \cup {key} |->
        IF k = key THEN [value |-> value, ttl |-> ttl] ELSE store[k]]

\* faulty variant: the seconds are counted down but no entry is ever dropped
ElapseKeepsExpired(store, dt) ==
    [k \in DOMAIN store |-> [store[k] EXCEPT !.ttl = @ - dt]]
\* the store dt seconds later: setex entries live for their `ttl` seconds and are gone
\* afterwards; `ttl` is what is left of an entry's life
Elapse(store, dt) ==
    [k \in {j \in DOMAIN store : store[j].ttl > dt} |->
        [store[k] EXCEPT !.ttl = @ - dt]]

(***************************** the handler *********************************)
\* request bodies: `subreddit` and `filter` may each be absent
Bodies ==
    { <<>>, [subreddit |-> ""], [filter |-> "best"], [subreddit |-> "cats"],
      [subreddit |-> "cats", filter |-> "best"], [subreddit |-> "dogs", filter |-> "new"] }

Field(body, name) == IF name \in DOMAIN body THEN <<body[name]>> ELSE <<>>

\* faulty variant: only an absent subreddit is rejected, an empty one is not
MissingSubredditAbsentOnly(sub) == sub = <<>>
\* !subreddit
MissingSubreddit(sub) == sub = <<>> \/ sub[1] = ""

\* const { subreddit, filter = "hot" } = body
FilterOf(body) == IF Field(body, "filter") = <<>> THEN "hot" ELSE body.filter

Json(status, body) == [status |-> status, body |-> body]

\* faulty variant: the "Forbidden" test is left out
IsNotFoundSignalNoForbidden(e) ==
    \/ e.statusCode = <<404>>
    \/ /\ e.message # <<>>
       /\ \/ Includes(e.message[1], "404")
          \/ Includes(e.message[1], "not found")
\* lines 75-81
IsNotFoundSignal(e) ==
    \/ e.statusCode = <<404>>
    \/ /\ e.message # <<>>
       /\ \/ Includes(e.message[1], "404")
          \/ Includes(e.message[1], "not found")
          \/ Includes(e.message[1], "Forbidden")

\* lines 74-86: the catch around getTop/getHot
ListCatch(e, subreddit) ==
    IF IsNotFoundSignal(e)
    THEN NewError("Subreddit r/" \o subreddit \o " does not exist")
    ELSE e

\* lines 49-61: the catch of POST
CatchResponse(err) ==
    IF err.isError /\ err.message # <<>> /\ Includes(err.message[1], "does not exist")
    THEN Json(404, [error |-> err.message[1]])
    ELSE Json(500, [error |-> "Failed to analyze subreddit"])

\* local variables of one invocation
Locals(pc, subreddit, filter) ==
    [pc |-> pc, subreddit |-> subreddit, filter |-> filter, posts |-> <<>>, i |-> 0,
     acc |-> ZeroAcc, comments |-> <<>>, analysis |-> <<>>, data |-> <<>>,
     result |-> <<>>]

\* History of one invocation, kept for the properties only:
\*   body         the request body, <<>> before any request
\*   lookup       "resolved" once kv.get(cacheKey) resolved; seen: what the store held
\*   list         the listing call made (getHot or getTop), if any
\*   expand, classifier, summarizer, kvReads   numbers of calls made
\*   reportWrites, postWrites                  keys written, in order
\*   cause, thrown   the call whose exception reached the catch of POST, and the value
\*   perPost      per completed loop iteration: the post, whether its key was present
\*                at the lookup, whether the cached value was used, the calls made
\*   curPresent, curExpand, curClassify   the same for the iteration under way
\*   classified   the last classification: comments, HTTP outcome, what came of it
\*   vibeReply    the HTTP outcome of the summary request, until the report is stored
NoHistory ==
    [body |-> <<>>, lookup |-> "none", seen |-> <<>>, list |-> <<>>, expand |-> 0,
     classifier |-> 0, summarizer |-> 0, kvReads |-> 0, reportWrites |-> <<>>,
     postWrites |-> <<>>, cause |-> "none", thrown |-> <<>>, perPost |-> <<>>,
     curPresent |-> FALSE, curExpand |-> 0, curClassify |-> 0, classified |-> <<>>,
     vibeReply |-> <<>>]

\* faulty variant: the loop is left before its last post
AdvanceLeavesEarly(q) ==
    IF q.i >= Len(q.posts)
    THEN [q EXCEPT !.pc = "summarize", !.data = <<MakeData(q.acc, Len(q.posts))>>]
    ELSE [q EXCEPT !.pc = "kvGetPost", !.acc = BeginPost(q.acc, q.posts[q.i])]
\* the loop head: the next post's synchronous part, or lines 142-158 after the last
Advance(q) ==
    IF q.i > Len(q.posts)
    THEN [q EXCEPT !.pc = "summarize", !.data = <<MakeData(q.acc, Len(q.posts))>>]
    ELSE [q EXCEPT !.pc = "kvGetPost", !.acc = BeginPost(q.acc, q.posts[q.i])]

\* faulty variant: the loop moves on by two posts
NextPostSkipsOne(q, a) ==
    Advance([q EXCEPT !.acc = Accumulate(q.acc, a), !.i = q.i + 2,
                      !.comments = <<>>, !.analysis = <<>>])
\* the loop tail for the current post, whose analysis is `a`
NextPost(q, a) ==
    Advance([q EXCEPT !.acc = Accumulate(q.acc, a), !.i = q.i + 1,
                      !.comments = <<>>, !.analysis = <<>>])

(************************** environment replies ****************************)
\* one classification per comment, in order, as the structured-output schema asks
Verdict(c, t, mood) == [constructive |-> c, toxic |-> t, mood |-> mood]
ModelVerdicts ==
    << Verdict(TRUE, FALSE, "supportive"), Verdict(FALSE, TRUE, "sarcastic"),
       Verdict(FALSE, FALSE, "neutral"), Verdict(TRUE, FALSE, "aggressive") >>

\* HTTP outcomes of the classification request for n comments
ClassifierReplies(n) ==
    { Rejects(e) : e \in OtherErrors }
    \cup { ErrorBody, Choices(<<>>), Content(Lit("")),
           Content(Lit("Sorry, I cannot classify these comments.")),
           Content(JsonText(JsonNull)), Content(JsonText(EmptyObject)),
           Content(JsonText(JsonObject([comments |-> Take(ModelVerdicts, n)]))) }

\* HTTP outcomes of the summary request
SummarizerReplies ==
    { Rejects(e) : e \in OtherErrors }
    \cup { ErrorBody, Choices(<<>>), Content(Lit("")),
           Content(Lit("A friendly, constructive community.")) }

(******************************* the page **********************************)
\* String.prototype.trim for the blank
RECURSIVE TrimStart(_)
TrimStart(s) ==
    IF Len(s) > 0 /\ SubSeq(s, 1, 1) = " " THEN TrimStart(SubSeq(s, 2, Len(s))) ELSE s
RECURSIVE TrimEnd(_)
TrimEnd(s) ==
    IF Len(s) > 0 /\ SubSeq(s, Len(s), Len(s)) = " "
    THEN TrimEnd(SubSeq(s, 1, Len(s) - 1)) ELSE s
\* faulty variant: the text is taken as typed
TrimNothing(s) == s
Trim(s) == TrimEnd(TrimStart(s))

\* no component rendered
NoUi ==
    [effects |-> "none", initialSubreddit |-> "", autoAnalyze |-> FALSE,
     subreddit |-> "", filter |-> "best", data |-> <<>>, loading |-> FALSE,
     error |-> "", calls |-> <<>>, invoked |-> 0]

\* the first render: <SubredditAnalyzer initialSubreddit={name} autoAnalyze={true} /> of
\* the subreddit page, or the analyzer of the home page with neither prop; the state
\* is that of the useState calls, the effects have not run yet
Rendered(initialSubreddit, autoAnalyze) ==
    [NoUi EXCEPT !.effects = "pending", !.initialSubreddit = initialSubreddit,
                 !.autoAnalyze = autoAnalyze, !.subreddit = initialSubreddit]

\* subreddit names of the page URL, decoded
PageNames == { "cats", "dogs", " " }
\* what the user types into the input
InputTexts == { "", "  ", "cats", " dogs " }

\* response.ok
Ok(response) == response.status \in 200..299

\* faulty variant: the error thrown carries the message of the response body
ThrowBodyMessage(response) ==
    IF ~Ok(response) THEN << NewError(response.body.error) >> ELSE <<>>
\* `if (!response.ok) throw new Error("Failed to analyze subreddit")`: the value thrown,
\* <<>> when nothing is
ThrowIfNotOk(response) ==
    IF ~Ok(response) THEN << NewError("Failed to analyze subreddit") >> ELSE <<>>

\* `err instanceof Error ? err.message : "An error occurred"`
ErrorText(err) == IF err.isError THEN err.message[1] ELSE "An error occurred"

\* handleSubmit up to its await: the state it leaves and the request it sends
HandleSubmit(u) ==
    IF Trim(u.subreddit) = ""
    THEN [u EXCEPT !.invoked = @ + 1]
    ELSE [u EXCEPT !.invoked = @ + 1, !.loading = TRUE, !.error = "", !.data = <<>>,
                   !.calls = Append(@, [pc |-> "fetch",
                                        sent |-> [subreddit |-> Trim(u.subreddit),
                                                  filter |-> u.filter],
                                        response |-> <<>>, shown |-> <<>>])]

\* the `finally` of call c
Finally(u, c) == [u EXCEPT !.loading = FALSE, !.calls[c].pc = "settled"]
\* the `catch` of call c, then its `finally`
Caught(u, c, err) ==
    Finally([u EXCEPT !.error = ErrorText(err),
                      !.calls[c].shown = << [data |-> <<>>, error |-> ErrorText(err)] >>],
            c)
\* setData(result) of call c, then its `finally`
Fulfilled(u, c, result) ==
    Finally([u EXCEPT !.data = << result >>,
                      !.calls[c].shown = << [data |-> << result >>, error |-> ""] >>],
            c)

\* the report of a subreddit whose listing is the one post
ReportOf(post) ==
    ToJSON(WithVibe(MakeData(Accumulate(BeginPost(ZeroAcc, post),
                                        fallbackAnalysis(Take(RepliesOf(post.id),
                                                              MaxComments))),
                             1),
                    FALLBACK_SENTENCE))

\* what POST answers to a request: a report, the 400 for a body without subreddit
\* (which handleSubmit never sends), and what its catch makes of a failed listing
ServerAnswers(sent) ==
    { Json(200, ReportOf(P2)), Json(200, ReportOf(P3)),
      Json(400, [error |-> "Missing subreddit"]) }
    \cup { CatchResponse(ListCatch(e, sent.subreddit)) :
              e \in NotFoundErrors \cup OtherErrors }

\* what fetch and response.json() reject with when the connection breaks
NetworkErrors == { TypeError("Failed to fetch") }

(******************************* actions ***********************************)
\* no function application under way
NoCall == [fn |-> "none", arg |-> <<>>, out |-> <<>>]

\* the state after the module is loaded: an empty store, no request
Idle ==
    /\ kv = <<>>
    /\ rq = [r \in Handlers |-> Locals("idle", "", "")]
    /\ resp = [r \in Handlers |-> <<>>]
    /\ gh = [r \in Handlers |-> NoHistory]
    /\ started = 0

Init == Idle /\ app = NoCall /\ ui = NoUi

\* lines 21-27: a request arrives; a missing subreddit is answered at once
Receive(r) ==
    /\ rq[r].pc \in {"idle", "done"}
    /\ started < MaxRequests
    /\ started' = started + 1
    /\ \E body \in Bodies :
          LET sub == Field(body, "subreddit")
          IN  /\ gh' = [gh EXCEPT ![r] = [NoHistory EXCEPT !.body = <<body>>]]
              /\ IF MissingSubreddit(sub)
                 THEN /\ rq' = [rq EXCEPT ![r] = Locals("done", "", FilterOf(body))]
                      /\ resp' = [resp EXCEPT ![r] =
                                     Json(400, [error |-> "Missing subreddit"])]
                 ELSE /\ rq' = [rq EXCEPT ![r] =
                                   Locals("kvGetReport", sub[1], FilterOf(body))]
                      /\ resp' = [resp EXCEPT ![r] = <<>>]
    /\ UNCHANGED <<kv, app, ui>>

\* lines 31-37: await kv.get(cacheKey)
KvGetReport(r) ==
    /\ rq[r].pc = "kvGetReport"
    /\ \/ \E e \in OtherErrors :
             /\ rq' = [rq EXCEPT ![r].pc = "done"]
             /\ resp' = [resp EXCEPT ![r] = CatchResponse(e)]
             /\ gh' = [gh EXCEPT ![r].cause = "kvGetReport", ![r].thrown = <<e>>,
                                 ![r].kvReads = @ + 1]
       \/ LET cachedResult == CacheGet(kv, ReportKey(rq[r].subreddit, rq[r].filter))
          IN  /\ gh' = [gh EXCEPT ![r].lookup = "resolved", ![r].seen = cachedResult,
                                  ![r].kvReads = @ + 1]
              /\ IF IsHit(cachedResult)
                 THEN /\ rq' = [rq EXCEPT ![r].pc = "done"]
                      /\ resp' = [resp EXCEPT ![r] = Json(200, cachedResult[1])]
                 ELSE /\ rq' = [rq EXCEPT ![r].pc = "listPosts"]
                      /\ resp' = resp
    /\ UNCHANGED <<kv, started, app, ui>>

\* lines 65-95: await getTop / getHot, then the head of the loop
ListPosts(r) ==
    /\ rq[r].pc = "listPosts"
    /\ LET call == IF rq[r].filter = "best" THEN "getTop" ELSE "getHot"
       IN  \/ \E e \in NotFoundErrors \cup OtherErrors :
                 /\ rq' = [rq EXCEPT ![r].pc = "done"]
                 /\ resp' = [resp EXCEPT ![r] =
                                CatchResponse(ListCatch(e, rq[r].subreddit))]
                 /\ gh' = [gh EXCEPT ![r].cause = "listPosts", ![r].thrown = <<e>>,
                                     ![r].list = <<call>>]
           \/ \E content \in ForumContents :
                 /\ rq' = [rq EXCEPT ![r] =
                              Advance([rq[r] EXCEPT !.posts = Take(content, MaxPosts),
                                                    !.i = 1, !.acc = ZeroAcc])]
                 /\ resp' = resp
                 /\ gh' = [gh EXCEPT ![r].list = <<call>>]
    /\ UNCHANGED <<kv, started, app, ui>>

\* lines 111-120 and, on a hit, 131-139: await kv.get(postCacheKey)
KvGetPost(r) ==
    /\ rq[r].pc = "kvGetPost"
    /\ LET post == rq[r].posts[rq[r].i]
           commentAnalysis == CacheGet(kv, PostKey(post.id))
       IN  \/ \E e \in OtherErrors :
                 /\ rq' = [rq EXCEPT ![r].pc = "done"]
                 /\ resp' = [resp EXCEPT ![r] = CatchResponse(e)]
                 /\ gh' = [gh EXCEPT ![r].cause = "kvGetPost", ![r].thrown = <<e>>,
                                     ![r].kvReads = @ + 1]
           \/ /\ IsHit(commentAnalysis)
              /\ rq' = [rq EXCEPT ![r] = NextPost(rq[r], commentAnalysis[1])]
              /\ resp' = resp
              /\ gh' = [gh EXCEPT ![r].kvReads = @ + 1,
                                  ![r].perPost = Append(@,
                                      [id |-> post.id,
                                       present |-> PostKey(post.id) \in DOMAIN kv,
                                       hit |-> TRUE,
                                       expand |-> 0, classify |-> 0,
                                       used |-> commentAnalysis[1]])]
           \/ /\ ~IsHit(commentAnalysis)
              /\ rq' = [rq EXCEPT ![r].pc = "expandReplies"]
              /\ resp' = resp
              /\ gh' = [gh EXCEPT ![r].kvReads = @ + 1,
                                  ![r].curPresent = PostKey(post.id) \in DOMAIN kv]
    /\ UNCHANGED <<kv, started, app, ui>>

\* lines 122-126: await post.expandReplies, which resolves with the first `limit` replies
\* the post has by then (all of them, or only the first); analyzeComments returns at
\* once for no comments
ExpandReplies(r) ==
    /\ rq[r].pc = "expandReplies"
    /\ LET post == rq[r].posts[rq[r].i]
           replies == Take(RepliesOf(post.id), MaxComments)
       IN  \/ \E e \in OtherErrors :
                 /\ rq' = [rq EXCEPT ![r].pc = "done"]
                 /\ resp' = [resp EXCEPT ![r] = CatchResponse(e)]
                 /\ gh' = [gh EXCEPT ![r].cause = "expandReplies", ![r].thrown = <<e>>,
                                     ![r].expand = @ + 1]
           \/ \E comments \in {replies, Take(replies, 1)} :
              /\ rq' = [rq EXCEPT ![r].comments = comments,
                                  ![r].pc = IF NoComments(comments) THEN "kvSetPost"
                                            ELSE "classify",
                                  ![r].analysis = IF NoComments(comments)
                                                  THEN <<ZeroAnalysis>> ELSE <<>>]
              /\ resp' = resp
              /\ gh' = [gh EXCEPT ![r].expand = @ + 1, ![r].curExpand = @ + 1]
    /\ UNCHANGED <<kv, started, app, ui>>

\* lines 191-277: await generateText in analyzeComments, then the counting
Classify(r) ==
    /\ rq[r].pc = "classify"
    /\ \E reply \in ClassifierReplies(Len(rq[r].comments)) :
          LET res == analyzeComments(rq[r].comments, reply)
          IN  IF res.threw
              THEN /\ rq' = [rq EXCEPT ![r].pc = "done"]
                   /\ resp' = [resp EXCEPT ![r] = CatchResponse(res.err)]
                   /\ gh' = [gh EXCEPT ![r].cause = "classifier",
                                       ![r].thrown = <<res.err>>,
                                       ![r].classifier = @ + 1,
                                       ![r].classified =
                                           <<[comments |-> rq[r].comments,
                                              reply |-> reply, outcome |-> res]>>]
              ELSE /\ rq' = [rq EXCEPT ![r].analysis = <<res.value>>,
                                       ![r].pc = "kvSetPost"]
                   /\ resp' = resp
                   /\ gh' = [gh EXCEPT ![r].classifier = @ + 1,
                                       ![r].curClassify = @ + 1,
                                       ![r].classified =
                                           <<[comments |-> rq[r].comments,
                                              reply |-> reply, outcome |-> res]>>]
    /\ UNCHANGED <<kv, started, app, ui>>

\* lines 128-139: await kv.setex(postCacheKey, ...), then the accumulation
KvSetPost(r) ==
    /\ rq[r].pc = "kvSetPost"
    /\ LET post == rq[r].posts[rq[r].i]
           commentAnalysis == rq[r].analysis[1]
       IN  \/ \E e \in OtherErrors :
                 /\ rq' = [rq EXCEPT ![r].pc = "done"]
                 /\ resp' = [resp EXCEPT ![r] = CatchResponse(e)]
                 /\ gh' = [gh EXCEPT ![r].cause = "kvSetPost", ![r].thrown = <<e>>]
                 /\ kv' = kv
           \/ /\ kv' = CacheSetex(kv, PostKey(post.id), POST_CACHE_TTL, commentAnalysis)
              /\ rq' = [rq EXCEPT ![r] = NextPost(rq[r], commentAnalysis)]
              /\ resp' = resp
              /\ gh' = [gh EXCEPT ![r].postWrites = Append(@, PostKey(post.id)),
                                  ![r].curPresent = FALSE, ![r].curExpand = 0,
                                  ![r].curClassify = 0, ![r].classified = <<>>,
                                  ![r].perPost = Append(@,
                                      [id |-> post.id, present |-> gh[r].curPresent,
                                       hit |-> FALSE,
                                       expand |-> gh[r].curExpand,
                                       classify |-> gh[r].curClassify,
                                       used |-> commentAnalysis])]
    /\ UNCHANGED <<started, app, ui>>

\* lines 160-166: await generateText in generateCommunityVibeSummary
Summarize(r) ==
    /\ rq[r].pc = "summarize"
    /\ \E reply \in SummarizerReplies :
          /\ rq' = [rq EXCEPT ![r].pc = "kvSetReport",
                              ![r].result = <<WithVibe(rq[r].data[1],
                                                generateCommunityVibeSummary(reply))>>]
          /\ gh' = [gh EXCEPT ![r].summarizer = @ + 1, ![r].vibeReply = <<reply>>]
    /\ UNCHANGED <<kv, resp, started, app, ui>>

\* lines 44-48: await kv.setex(cacheKey, CACHE_TTL, result), then the 200 response
KvSetReport(r) ==
    /\ rq[r].pc = "kvSetReport"
    /\ LET cacheKey == ReportKey(rq[r].subreddit, rq[r].filter)
           result == rq[r].result[1]
       IN  \/ \E e \in OtherErrors :
                 /\ rq' = [rq EXCEPT ![r].pc = "done"]
                 /\ resp' = [resp EXCEPT ![r] = CatchResponse(e)]
                 /\ gh' = [gh EXCEPT ![r].cause = "kvSetReport", ![r].thrown = <<e>>,
                                     ![r].vibeReply = <<>>]
                 /\ kv' = kv
           \/ /\ kv' = CacheSetex(kv, cacheKey, CACHE_TTL, ToJSON(result))
              /\ rq' = [rq EXCEPT ![r].pc = "done"]
              /\ resp' = [resp EXCEPT ![r] = Json(200, ToJSON(result))]
              /\ gh' = [gh EXCEPT ![r].reportWrites = Append(@, cacheKey),
                                  ![r].vibeReply = <<>>]
    /\ UNCHANGED <<started, app, ui>>

Step(r) ==
    \/ Receive(r)
    \/ KvGetReport(r)
    \/ ListPosts(r)
    \/ KvGetPost(r)
    \/ ExpandReplies(r)
    \/ Classify(r)
    \/ KvSetPost(r)
    \/ Summarize(r)
    \/ KvSetReport(r)

\* requests are served one at a time
Next == \E r \in SeqHandlers : Step(r)

Spec == Init /\ [][Next]_vars

(************************ requests in flight together **********************)
\* Two invocations of POST interleave at their await points. The environment is the
\* same as under Spec with fewer alternatives per call: requests for r/cats (filter
\* hot or best), one rejection value per call besides the listing's 404, listings of
\* one or two posts with comments, expandReplies resolving with all the replies, and
\* three classifier and two summarizer outcomes.
ConcBodies == { [subreddit |-> "cats"], [subreddit |-> "cats", filter |-> "best"] }
ConcError == Thrown(TRUE, <<503>>, <<"Service Unavailable">>)
ConcListErrors == { ConcError, Thrown(TRUE, <<404>>, <<"Not Found">>) }
ConcContents == { <<P2>>, <<P3, P2>> }
ConcClassifierReplies(n) ==
    { Rejects(ConcError),
      Content(Lit("Sorry, I cannot classify these comments.")),
      Content(JsonText(JsonObject([comments |-> Take(ModelVerdicts, n)]))) }
ConcSummarizerReplies ==
    { Rejects(ConcError),
      Content(Lit("A friendly, constructive community.")) }

\* what the environment has answered so far is among these alternatives
ConcEnv ==
    \A r \in Handlers :
        /\ \A k \in DOMAIN gh[r].body : gh[r].body[k] \in ConcBodies
        /\ gh[r].cause = "listPosts" => gh[r].thrown[1] \in ConcListErrors
        /\ gh[r].cause \notin {"none", "classifier", "listPosts"} =>
              gh[r].thrown[1] = ConcError
        /\ rq[r].pc \in {"classify", "kvSetPost"} =>
              rq[r].comments = Take(RepliesOf(rq[r].posts[rq[r].i].id), MaxComments)
        /\ rq[r].pc \notin {"idle", "kvGetReport", "listPosts", "done"} =>
              \E content \in ConcContents : rq[r].posts = Take(content, MaxPosts)
        /\ \A k \in DOMAIN gh[r].classified :
              gh[r].classified[k].reply
                  \in ConcClassifierReplies(Len(gh[r].classified[k].comments))
        /\ \A k \in DOMAIN gh[r].vibeReply : gh[r].vibeReply[k] \in ConcSummarizerReplies

NextConc ==
    \E r \in Handlers :
        \/ Receive(r) /\ ConcEnv'
        \/ KvGetReport(r) /\ ConcEnv'
        \/ ListPosts(r) /\ ConcEnv'
        \/ KvGetPost(r) /\ ConcEnv'
        \/ ExpandReplies(r) /\ ConcEnv'
        \/ Classify(r) /\ ConcEnv'
        \/ KvSetPost(r) /\ ConcEnv'
        \/ Summarize(r) /\ ConcEnv'
        \/ KvSetReport(r) /\ ConcEnv'

SpecConc == Init /\ [][NextConc]_vars

(************************ requests with time passing ***********************)
\* Requests are served one at a time, by either invocation record so that the history
\* of the previous request is still there during the next, and time passes in steps
\* of half an hour between and during them. The environment is ConcEnv.
TickSeconds == 30 * 60

Tick ==
    /\ kv' = Elapse(kv, TickSeconds)
    /\ UNCHANGED <<rq, resp, gh, started, app, ui>>

\* no other invocation is under way
Alone(r) == \A o \in Handlers \ {r} : rq[o].pc \in {"idle", "done"}

NextTtl ==
    \/ \E r \in Handlers :
          \/ Receive(r) /\ Alone(r) /\ ConcEnv'
          \/ KvGetReport(r) /\ ConcEnv'
          \/ ListPosts(r) /\ ConcEnv'
          \/ KvGetPost(r) /\ ConcEnv'
          \/ ExpandReplies(r) /\ ConcEnv'
          \/ Classify(r) /\ ConcEnv'
          \/ KvSetPost(r) /\ ConcEnv'
          \/ Summarize(r) /\ ConcEnv'
          \/ KvSetReport(r) /\ ConcEnv'
    \/ Tick

SpecTtl == Init /\ [][NextTtl]_vars

(********************* functions applied on their own **********************)
\* The functions of the handler that do not touch the store or the network, applied
\* to arguments drawn from bounded sets: `app` holds the argument, then the result.
Apply(fn, arg) == [fn |-> fn, arg |-> arg, out |-> <<>>]

MoodCalls ==
    { Apply("getOverallMood", [constructive |-> c, toxic |-> t]) :
        c \in 0..MaxCount, t \in 0..MaxCount }

\* posts as the forum API describes them: upvotes, comment count, upvote ratio
Ratios == { <<0, 1>>, <<1, 2>>, <<2, 3>>, <<67, 100>>, <<8, 10>>, <<1, 1>> }
ListedPosts ==
    { [id |-> "p", ups |-> u, num_comments |-> n, ratioNum |-> q[1], ratioDen |-> q[2]] :
        u \in {0, 1, 3, 10, 100}, n \in {0, 1}, q \in Ratios }

\* the accumulators before a post: at the first post, and after some posts
SomeAccs == { ZeroAcc, [ZeroAcc EXCEPT !.ignored = 1, !.totalUpvotes = 3, !.totalDownvotes = 7] }

BeginPostCalls ==
    { Apply("BeginPost", [acc |-> a, post |-> p]) : a \in SomeAccs, p \in ListedPosts }

\* comment bodies: mixed case, several keywords in one body, a keyword inside a word
\* ("retry"), no keyword, no body
CommentPool ==
    { Comment("LOL you could try"), Comment("Shut up"), Comment("This is DUMB"),
      Comment("I suggest a retry"), Comment("what an idiot"), Comment("nice post"),
      NoBodyComment }
CommentLists == UNION { [1..n -> CommentPool] : n \in 0..MaxComments }

FallbackCalls == { Apply("fallbackAnalysis", [comments |-> cs]) : cs \in CommentLists }

\* the verdicts the schema allows (all four moods), one of them in two categories
VerdictPool ==
    { Verdict(TRUE, FALSE, "supportive"), Verdict(FALSE, TRUE, "sarcastic"),
      Verdict(FALSE, FALSE, "neutral"), Verdict(TRUE, FALSE, "aggressive"),
      Verdict(TRUE, TRUE, "sarcastic") }
VerdictLists == UNION { [1..n -> VerdictPool] : n \in 0..MaxVerdicts }

\* HTTP outcomes of the classification request, the `comments` array of any length
FnClassifierReplies ==
    { Rejects(e) : e \in OtherErrors }
    \cup { ErrorBody, Choices(<<>>), Content(Lit("")),
           Content(Lit("Sorry, I cannot classify these comments.")),
           Content(JsonText(JsonNull)), Content(JsonText(EmptyObject)) }
    \cup { Content(JsonText(JsonObject([comments |-> vs]))) : vs \in VerdictLists }

AnalyzeCalls ==
    { Apply("analyzeComments", [comments |-> cs, reply |-> reply]) :
        cs \in { <<>>, << Comment("LOL you could try") >>,
                 << Comment("nice post"), NoBodyComment >> },
        reply \in FnClassifierReplies }

InitFn ==
    /\ Idle
    /\ ui = NoUi
    /\ \/ app \in MoodCalls
       \/ app \in BeginPostCalls
       \/ app \in FallbackCalls
       \/ app \in AnalyzeCalls

\* lines 279-306
ApplyFallbackAnalysis ==
    /\ app.fn = "fallbackAnalysis" /\ app.out = <<>>
    /\ app' = [app EXCEPT !.out = <<fallbackAnalysis(app.arg.comments)>>]
    /\ UNCHANGED <<kv, rq, resp, gh, started, ui>>

\* lines 180-277: the result, and the number of completion requests made for it (the
\* one await at line 191, not reached for an empty list)
ApplyAnalyzeComments ==
    /\ app.fn = "analyzeComments" /\ app.out = <<>>
    /\ app' = [app EXCEPT !.out =
                  << [result |-> analyzeComments(app.arg.comments, app.arg.reply),
                      requests |-> IF NoComments(app.arg.comments) THEN 0 ELSE 1] >>]
    /\ UNCHANGED <<kv, rq, resp, gh, started, ui>>

ApplyGetOverallMood ==
    /\ app.fn = "getOverallMood" /\ app.out = <<>>
    /\ app' = [app EXCEPT !.out = <<getOverallMood(app.arg.constructive, app.arg.toxic)>>]
    /\ UNCHANGED <<kv, rq, resp, gh, started, ui>>

\* lines 98-108 for one post
ApplyBeginPost ==
    /\ app.fn = "BeginPost" /\ app.out = <<>>
    /\ app' = [app EXCEPT !.out = <<BeginPost(app.arg.acc, app.arg.post)>>]
    /\ UNCHANGED <<kv, rq, resp, gh, started, ui>>

NextFn ==
    \/ ApplyGetOverallMood
    \/ ApplyBeginPost
    \/ ApplyFallbackAnalysis
    \/ ApplyAnalyzeComments

SpecFn == InitFn /\ [][NextFn]_vars

(************************* the page in the browser *************************)
\* the component is rendered for the first time
InitUi ==
    /\ Idle
    /\ app = NoCall
    /\ \/ ui = Rendered("", FALSE)
       \/ \E name \in PageNames : ui = Rendered(name, TRUE)

\* no request of the page is under way
NoPending == \A c \in DOMAIN ui.calls : ui.calls[c].pc = "settled"

\* the two effects after the first render
RunEffects ==
    /\ ui.effects = "pending"
    /\ ui' = [(IF ui.autoAnalyze /\ Trim(ui.initialSubreddit) # ""
               THEN HandleSubmit(ui) ELSE ui)
                  EXCEPT !.effects = "ran", !.subreddit = ui.initialSubreddit]
    /\ UNCHANGED <<kv, rq, resp, gh, started, app>>

\* the subreddit page is rendered with another name: both effects run again, the first
\* calling the handleSubmit of this render, whose `subreddit` is still the state
ChangeProps ==
    /\ ui.effects = "ran"
    /\ ui.autoAnalyze
    /\ ui.invoked < MaxSubmits
    /\ \E name \in PageNames \ {ui.initialSubreddit} :
          ui' = [(IF ui.autoAnalyze /\ Trim(name) # "" THEN HandleSubmit(ui) ELSE ui)
                    EXCEPT !.initialSubreddit = name, !.subreddit = name]
    /\ UNCHANGED <<kv, rq, resp, gh, started, app>>

\* onChange of the input
TypeSubreddit ==
    /\ ui.effects = "ran"
    /\ \E text \in InputTexts \ {ui.subreddit} : ui' = [ui EXCEPT !.subreddit = text]
    /\ UNCHANGED <<kv, rq, resp, gh, started, app>>

\* onValueChange of the select
SelectFilter ==
    /\ ui.effects = "ran"
    /\ \E value \in {"hot", "best"} \ {ui.filter} : ui' = [ui EXCEPT !.filter = value]
    /\ UNCHANGED <<kv, rq, resp, gh, started, app>>

\* onSubmit of the form, whose button is in its loading state while `loading` is true
SubmitForm ==
    /\ ui.effects = "ran"
    /\ ~ui.loading
    /\ ui.invoked < MaxSubmits
    /\ ui' = HandleSubmit(ui)
    /\ UNCHANGED <<kv, rq, resp, gh, started, app>>

\* `await fetch(...)` of call c settles, then `if (!response.ok) throw`
FetchSettles(c) ==
    /\ ui.calls[c].pc = "fetch"
    /\ \/ \E err \in NetworkErrors : ui' = Caught(ui, c, err)
       \/ \E response \in ServerAnswers(ui.calls[c].sent) :
             LET got == [ui EXCEPT !.calls[c].response = << response >>]
                 thrown == ThrowIfNotOk(response)
             IN  IF thrown # <<>>
                 THEN ui' = Caught(got, c, thrown[1])
                 ELSE ui' = [got EXCEPT !.calls[c].pc = "json"]
    /\ UNCHANGED <<kv, rq, resp, gh, started, app>>

\* `await response.json()` of call c settles
JsonSettles(c) ==
    /\ ui.calls[c].pc = "json"
    /\ \/ \E err \in NetworkErrors : ui' = Caught(ui, c, err)
       \/ ui' = Fulfilled(ui, c, ui.calls[c].response[1].body)
    /\ UNCHANGED <<kv, rq, resp, gh, started, app>>

\* one handleSubmit at a time: the page is not rendered with another name while a
\* request is under way
NextUi ==
    \/ RunEffects
    \/ ChangeProps /\ NoPending
    \/ TypeSubreddit
    \/ SelectFilter
    \/ SubmitForm
    \/ \E c \in DOMAIN ui.calls : FetchSettles(c)
    \/ \E c \in DOMAIN ui.calls : JsonSettles(c)

SpecUi == InitUi /\ [][NextUi]_vars

\* the page may be rendered with another name at any time
NextUiRace ==
    \/ RunEffects
    \/ ChangeProps
    \/ TypeSubreddit
    \/ SelectFilter
    \/ SubmitForm
    \/ \E c \in DOMAIN ui.calls : FetchSettles(c)
    \/ \E c \in DOMAIN ui.calls : JsonSettles(c)

SpecUiRace == InitUi /\ [][NextUiRace]_vars

(***************************** properties **********************************)
Done(r) == rq[r].pc = "done"

NoUpstreamCalls(r) ==
    /\ gh[r].list = <<>>
    /\ gh[r].expand = 0
    /\ gh[r].classifier = 0
    /\ gh[r].summarizer = 0

NoWrites(r) == gh[r].reportWrites = <<>> /\ gh[r].postWrites = <<>>

\* the subreddit and filter the request asked for, read off its body
AskedSubreddit(r) == gh[r].body[1].subreddit
AskedFilter(r) == IF "filter" \in DOMAIN gh[r].body[1] THEN gh[r].body[1].filter ELSE "hot"
AskedKey(r) == "subreddit_health:" \o AskedSubreddit(r) \o ":" \o AskedFilter(r)

\* the not-found/forbidden signal, as the claims word it
SignalsNotFound(e) ==
    \/ 404 \in {e.statusCode[k] : k \in DOMAIN e.statusCode}
    \/ \E k \in DOMAIN e.message :
          \/ Includes(e.message[k], "404")
          \/ Includes(e.message[k], "not found")
          \/ Includes(e.message[k], "Forbidden")

\* the text of the completion, "" when there is none
ReplyText(reply) ==
    IF reply.kind = "choices" /\ Len(reply.choices) > 0 /\ reply.choices[1] # <<>>
    THEN ContentString(reply.choices[1][1])
    ELSE ""

\* C1: when kv.get(cacheKey) resolves with the report stored under
\* subreddit_health:{subreddit}:{filter}, the request makes no forum, classifier or
\* summarizer call, writes no key of either namespace, and answers 200 with exactly
\* the stored report, its vibeSummary included; the store keeps the report.
CacheHitServesCachedReport ==
    \A r \in Handlers :
        gh[r].lookup = "resolved" /\ gh[r].seen # <<>> =>
            /\ Done(r)
            /\ resp[r] = Json(200, gh[r].seen[1])
            /\ "vibeSummary" \in DOMAIN resp[r].body
            /\ NoUpstreamCalls(r)
            /\ NoWrites(r)
            /\ AskedKey(r) \in DOMAIN kv
            /\ kv[AskedKey(r)].value = gh[r].seen[1]

\* C1 witness: a request served from the report cache a report whose vibeSummary the
\* summarizer had written
CacheHitReached ==
    \E r \in Handlers :
        /\ gh[r].lookup = "resolved" /\ gh[r].seen # <<>>
        /\ Done(r) /\ resp[r].status = 200
        /\ resp[r].body.vibeSummary = "A friendly, constructive community."
        /\ resp[r].body.commentStats.total > 0

\* C2 (as claimed): whenever the completion request of the classifier throws,
\* analyzeComments returns fallbackAnalysis of the same comments and the request is not
\* ended by the classifier.
ClassifierThrowFallsBack ==
    \A r \in Handlers :
        \A k \in DOMAIN gh[r].classified :
            LET c == gh[r].classified[k]
            IN  c.reply.kind \in {"reject", "noChoices"} =>
                    /\ c.outcome = Return(fallbackAnalysis(c.comments))
                    /\ gh[r].cause # "classifier"

\* C3 (as claimed): whatever the completion request of the classifier resolves with,
\* analyzeComments returns a CommentAnalysis, and it is the keyword fallback unless the
\* content is JSON with a `comments` array.
ClassifierReplyNeverThrows ==
    \A r \in Handlers :
        \A k \in DOMAIN gh[r].classified :
            LET c == gh[r].classified[k]
                content == IF Len(c.reply.choices) > 0 THEN c.reply.choices[1] ELSE <<>>
                wellFormed == /\ content # <<>>
                              /\ ~IsLit(content[1])
                              /\ content[1].jsonOf.t = "object"
                              /\ "comments" \in DOMAIN content[1].jsonOf.o
            IN  c.reply.kind = "choices" =>
                    /\ ~c.outcome.threw
                    /\ ~wellFormed => c.outcome = Return(fallbackAnalysis(c.comments))

\* C4 (as claimed): a request with a non-empty subreddit is answered with an error
\* only when a forum call (listing the posts, expanding the replies) failed.
OnlyForumFailuresAbort ==
    \A r \in Handlers :
        Done(r) /\ resp[r].status \in {404, 500} =>
            gh[r].cause \in {"listPosts", "expandReplies"}

\* C5: when getHot/getTop rejects with the not-found/forbidden signal, the answer is
\* 404 with body {error: "Subreddit r/{subreddit} does not exist"} and the report key
\* is not written.
NotFoundAnswered404 ==
    \A r \in Handlers :
        gh[r].cause = "listPosts" /\ SignalsNotFound(gh[r].thrown[1]) =>
            /\ Done(r)
            /\ resp[r] = Json(404, [error |-> "Subreddit r/" \o AskedSubreddit(r)
                                                \o " does not exist"])
            /\ gh[r].reportWrites = <<>>
            /\ AskedKey(r) \notin DOMAIN kv

\* C5 witness: the listing was refused with "Forbidden" (status 403) and answered 404
NotFoundReached ==
    \E r \in Handlers :
        /\ gh[r].cause = "listPosts"
        /\ gh[r].thrown = << Thrown(TRUE, <<403>>, <<"Forbidden">>) >>
        /\ Done(r) /\ resp[r].status = 404

\* C6 (as claimed): a failed request is answered 404 only for the not-found/forbidden
\* signal of the listing, and otherwise 500 {error: "Failed to analyze subreddit"}.
OtherFailuresAnswered500 ==
    \A r \in Handlers :
        Done(r) /\ gh[r].cause # "none" =>
            IF gh[r].cause = "listPosts" /\ SignalsNotFound(gh[r].thrown[1])
            THEN resp[r].status = 404
            ELSE resp[r] = Json(500, [error |-> "Failed to analyze subreddit"])

\* C7: a request whose subreddit is absent or empty is answered 400
\* {error: "Missing subreddit"} without any store read or write, forum call or
\* text-generation call.
MissingSubredditAnswered400 ==
    \A r \in Handlers :
        \A k \in DOMAIN gh[r].body :
            LET body == gh[r].body[k]
            IN  ("subreddit" \notin DOMAIN body \/ body.subreddit = "") =>
                    /\ Done(r)
                    /\ resp[r] = Json(400, [error |-> "Missing subreddit"])
                    /\ gh[r].kvReads = 0
                    /\ NoWrites(r)
                    /\ NoUpstreamCalls(r)

\* C7 witness: a request with an empty subreddit arrived while the store held a report
MissingSubredditReached ==
    \E r \in Handlers :
        /\ gh[r].body = << [subreddit |-> ""] >>
        /\ Done(r) /\ resp[r].status = 400
        /\ DOMAIN kv # {}

\* C8: generateCommunityVibeSummary returns, for every outcome of its completion
\* request, a non-empty string: the completion's text when that is non-empty, the
\* fixed sentence otherwise; and every freshly computed report that is answered
\* carries a non-empty vibeSummary.
VibeSummaryNeverFails ==
    \A r \in Handlers :
        /\ \A k \in DOMAIN gh[r].vibeReply :
              LET text == ReplyText(gh[r].vibeReply[k])
                  vibe == rq[r].result[1].vibeSummary
              IN  /\ rq[r].pc = "kvSetReport"
                  /\ vibe # ""
                  /\ vibe = IF text # "" THEN text ELSE FALLBACK_SENTENCE
        /\ gh[r].cause # "summarizer"
        /\ Done(r) /\ resp[r].status = 200 /\ gh[r].seen = <<>> =>
              resp[r].body.vibeSummary # ""

\* C8 witness: the summary request was rejected and the report carries the fixed sentence
VibeFallbackReached ==
    \E r \in Handlers :
        /\ gh[r].vibeReply # <<>>
        /\ gh[r].vibeReply[1].kind = "reject"
        /\ rq[r].result[1].vibeSummary = FALLBACK_SENTENCE

\* the part of the store under subreddit_health:
ReportPart(store) ==
    [k \in {k \in DOMAIN store : Len(k) >= 17 /\ SubSeq(k, 1, 17) = "subreddit_health:"}
        |-> store[k]]

\* a step in which invocation r answers its request
Answers(r) == rq'[r].pc = "done" /\ (rq[r].pc # "done" \/ started' # started)

\* C9: the report part of the store changes only in a step of a request that missed
\* on its key subreddit_health:{subreddit}:{filter}, went through all its posts and has
\* its vibeSummary attached; the step stores, with TTL 1800, the very value it answers
\* with status 200, and changes no other report key. A step that answers 400, 404 or
\* 500 leaves the report part as it was.
ReportWrittenOnlyOnCompletion ==
    [][ /\ ReportPart(kv') # ReportPart(kv) =>
              \E r \in Handlers :
                 /\ rq[r].pc = "kvSetReport" /\ Answers(r)
                 /\ gh[r].lookup = "resolved" /\ gh[r].seen = <<>>
                 /\ rq[r].i = Len(rq[r].posts) + 1
                 /\ Len(gh[r].perPost) = Len(rq[r].posts)
                 /\ gh[r].summarizer = 1
                 /\ rq[r].result[1].vibeSummary # ""
                 /\ resp'[r].status = 200
                 /\ resp'[r].body.vibeSummary = rq[r].result[1].vibeSummary
                 /\ DOMAIN ReportPart(kv') = DOMAIN ReportPart(kv) \cup {AskedKey(r)}
                 /\ kv'[AskedKey(r)] = [value |-> resp'[r].body, ttl |-> 1800]
                 /\ \A k \in DOMAIN ReportPart(kv) \ {AskedKey(r)} : kv'[k] = kv[k]
        /\ \A r \in Handlers :
              Answers(r) /\ resp'[r].status \in {400, 404, 500} =>
                  ReportPart(kv') = ReportPart(kv)
      ]_vars

\* C9 witness: a request over two posts was answered 200 and its report is in the store
\* under its key with TTL 1800
ReportStoredReached ==
    \E r \in Handlers :
        /\ Done(r) /\ resp[r].status = 200
        /\ gh[r].reportWrites = <<AskedKey(r)>>
        /\ Len(rq[r].posts) = 2
        /\ AskedKey(r) \in DOMAIN kv
        /\ kv[AskedKey(r)] = [value |-> resp[r].body, ttl |-> 1800]

\* C10: on a report-cache miss the posts are gone through in the order listed, one
\* iteration completing before the next begins. An iteration whose key
\* post_comments:{postId} was present used the stored CommentAnalysis and called
\* neither expandReplies nor the classifier; one whose key was absent called
\* expandReplies once, the classifier once (not at all for no comments), and stored
\* the analysis it used under post_comments:{postId} with TTL 3600.
PerPostCacheDiscipline ==
    \A r \in Handlers :
        LET done == gh[r].perPost
        IN  /\ \A j \in DOMAIN done :
                  LET e == done[j]
                      key == "post_comments:" \o e.id
                  IN  /\ e.id = rq[r].posts[j].id
                      /\ key \in DOMAIN kv
                      /\ IF e.present
                         THEN /\ e.hit
                              /\ e.expand = 0 /\ e.classify = 0
                              /\ kv[key].value = e.used
                         ELSE /\ ~e.hit
                              /\ e.expand = 1
                              /\ e.classify = (IF e.used.total > 0 THEN 1 ELSE 0)
                              /\ kv[key] = [value |-> e.used, ttl |-> 3600]
            /\ rq[r].pc \in {"kvGetPost", "expandReplies", "classify", "kvSetPost"} =>
                  Len(done) = rq[r].i - 1
            /\ rq[r].pc \in {"summarize", "kvSetReport"} => Len(done) = Len(rq[r].posts)
            /\ gh[r].expand =
                  Cardinality({j \in DOMAIN done : ~done[j].hit}) + gh[r].curExpand
                  + (IF gh[r].cause = "expandReplies" THEN 1 ELSE 0)

\* C10 witness: one request found the analysis of one post in the store and computed
\* and stored that of another post with comments
PerPostHitAndMissReached ==
    \E r \in Handlers :
        \E i, j \in DOMAIN gh[r].perPost :
            /\ gh[r].perPost[i].present /\ gh[r].perPost[i].hit
            /\ ~gh[r].perPost[j].present
            /\ gh[r].perPost[j].used.total > 0
            /\ gh[r].perPost[j].classify = 1

(************************* the computed report *****************************)
\* the sum of field f over the entries of a history
RECURSIVE SumUsed(_, _)
SumUsed(entries, f) ==
    IF Len(entries) = 0 THEN 0
    ELSE entries[1].used[f] + SumUsed(SubSeq(entries, 2, Len(entries)), f)

\* C11 (as claimed): whatever the listing returns (no post included), the computed
\* ignoredPercent and upvoteRatio are integers between 0 and 100.
PercentsWithinRange ==
    \A r \in Handlers :
        \A k \in DOMAIN rq[r].data :
            LET data == rq[r].data[k]
            IN  /\ data.ignoredPercent.t = "num"
                /\ data.ignoredPercent.n \in 0..100
                /\ data.upvoteRatio.t = "num"
                /\ data.upvoteRatio.n \in 0..100

\* C12 (as claimed): when the listing returns no post, the report is computed with
\* ignoredPercent, avgUpvotes, avgDownvotes and upvoteRatio all 0.
ZeroPostsReportIsZero ==
    \A r \in Handlers :
        \A k \in DOMAIN rq[r].data :
            LET data == rq[r].data[k]
            IN  Len(rq[r].posts) = 0 =>
                    /\ data.ignoredPercent = Num(0)
                    /\ data.avgUpvotes = Num(0)
                    /\ data.avgDownvotes = Num(0)
                    /\ data.upvoteRatio = Num(0)

\* C13: in every computed report, and in the 200 answer that carries it, each of
\* commentStats.total, .ridicule, .constructive and .toxic is the sum of that field
\* over the CommentAnalysis values used for the posts listed, one per post, whether
\* read from the store or freshly computed.
CommentStatsAreSums ==
    \A r \in Handlers :
        LET used == gh[r].perPost
            IsSum(stats) ==
                \A f \in {"total", "ridicule", "constructive", "toxic"} :
                    stats[f] = SumUsed(used, f)
        IN  /\ \A k \in DOMAIN rq[r].data :
                  /\ Len(used) = Len(rq[r].posts)
                  /\ IsSum(rq[r].data[k].commentStats)
            /\ \A k \in DOMAIN rq[r].result : IsSum(rq[r].result[k].commentStats)
            /\ Done(r) /\ resp[r].status = 200 /\ gh[r].seen = <<>> =>
                  IsSum(resp[r].body.commentStats)

\* C13 witness: a report over two posts with comments, one analysis read from the
\* store and one freshly computed, was answered
CommentStatsSummedReached ==
    \E r \in Handlers :
        /\ Done(r) /\ resp[r].status = 200 /\ gh[r].seen = <<>>
        /\ Len(gh[r].perPost) = 2
        /\ \E i, j \in DOMAIN gh[r].perPost :
              /\ gh[r].perPost[i].hit /\ gh[r].perPost[i].used.total > 0
              /\ ~gh[r].perPost[j].hit /\ gh[r].perPost[j].used.total > 0
        /\ resp[r].body.commentStats.total > 2

\* C14: for all non-negative constructive and toxic counts, getOverallMood returns
\* "supportive" iff constructive > 3 * (toxic + 1), "mixed" iff
\* toxic + 1 < constructive <= 3 * (toxic + 1), "hostile" iff constructive <= toxic + 1,
\* so exactly one of the three; constructive = 4 with toxic = 1 gives "mixed".
OverallMoodThresholds ==
    app.fn = "getOverallMood" =>
        \A k \in DOMAIN app.out :
            LET c == app.arg.constructive
                t == app.arg.toxic
                mood == app.out[k]
            IN  /\ mood \in {"supportive", "mixed", "hostile"}
                /\ mood = "supportive" <=> c > 3 * (t + 1)
                /\ mood = "mixed" <=> (t + 1 < c /\ c <= 3 * (t + 1))
                /\ mood = "hostile" <=> c <= t + 1
                /\ (c = 4 /\ t = 1) => mood = "mixed"

\* C14 witness: getOverallMood(4, 1) returned "mixed" and the ratio-3 boundary is among
\* the arguments
OverallMoodBoundaryReached ==
    /\ app = [fn |-> "getOverallMood", arg |-> [constructive |-> 4, toxic |-> 1],
              out |-> <<"mixed">>]
    /\ Apply("getOverallMood", [constructive |-> 6, toxic |-> 1]) \in MoodCalls

\* C15: for each post the loop adds to totalDownvotes the estimate
\* max(0, round(ups / ratio - ups)) when ratio > 0 (rounding halves up) and 0 when ratio
\* is 0; for ups = 100 and ratio 0.8 it adds exactly 25. So totalDownvotes is the sum of
\* the per-post estimates.
EstimatedDownvotesAdded ==
    app.fn = "BeginPost" =>
        \A k \in DOMAIN app.out :
            LET post == app.arg.post
                d == app.out[k].totalDownvotes - app.arg.acc.totalDownvotes
                \* twice the numerator of ups / ratio - ups + 1/2 over the denominator 2 * ratioNum
                half == 2 * post.ups * (post.ratioDen - post.ratioNum) + post.ratioNum
            IN  /\ d >= 0
                /\ post.ratioNum = 0 => d = 0
                /\ post.ratioNum > 0 =>
                      /\ 2 * post.ratioNum * d <= half
                      /\ half < 2 * post.ratioNum * (d + 1)
                /\ (post.ups = 100 /\ post.ratioNum = 8 /\ post.ratioDen = 10) => d = 25

\* C15 witness: a post with 100 upvotes and ratio 0.8 raised totalDownvotes from 7 to 32
EstimatedDownvotesReached ==
    /\ app.fn = "BeginPost" /\ app.out # <<>>
    /\ app.arg.post.ups = 100 /\ app.arg.post.ratioNum = 8 /\ app.arg.post.ratioDen = 10
    /\ app.arg.acc.totalDownvotes = 7
    /\ app.out[1].totalDownvotes = 32

\* C16: analyzeComments on an empty comment list returns the CommentAnalysis with
\* ridicule, constructive, toxic, neutral and total all 0 and makes no text-generation
\* call: the classifier is only ever called with at least one comment, and every
\* classifier call of a request is one made for a non-empty list.
EmptyCommentListAnalysis ==
    \A r \in Handlers :
        /\ rq[r].pc = "classify" => Len(rq[r].comments) > 0
        /\ \A k \in DOMAIN gh[r].classified : Len(gh[r].classified[k].comments) > 0
        /\ (rq[r].pc = "kvSetPost" /\ Len(rq[r].comments) = 0) =>
              /\ rq[r].analysis = << [ridicule |-> 0, constructive |-> 0, toxic |-> 0,
                                      neutral |-> 0, total |-> 0] >>
              /\ gh[r].curExpand = 1
              /\ gh[r].curClassify = 0
        /\ gh[r].classifier =
              Cardinality({j \in DOMAIN gh[r].perPost : gh[r].perPost[j].classify = 1})
              + gh[r].curClassify + (IF gh[r].cause = "classifier" THEN 1 ELSE 0)

\* C16 witness: expandReplies resolved with no comment for a post of a request that
\* lists two posts: the all-zero analysis is about to be stored and no classifier call
\* was made
EmptyCommentListReached ==
    \E r \in Handlers :
        /\ rq[r].pc = "kvSetPost" /\ Len(rq[r].posts) = 2
        /\ Len(rq[r].comments) = 0
        /\ rq[r].analysis[1].total = 0
        /\ gh[r].expand = 1
        /\ gh[r].classifier = 0

(************************ requests in flight together **********************)
\* invocation r missed on its report key and went through listing, posts and summary
RanPipeline(r) ==
    /\ gh[r].lookup = "resolved" /\ gh[r].seen = <<>>
    /\ gh[r].list # <<>>
    /\ Len(gh[r].perPost) = Len(rq[r].posts)
    /\ gh[r].summarizer = 1

\* C17: requests for the same (subreddit, filter) may both miss (the witness) and each
\* then stores its own report: a request that completes writes the report it answers
\* under its key whatever the key holds by then, another request's report included,
\* so the value left under the key is that of the write that happened last.
LastReportWriteWins ==
    [][ \A r \in Handlers :
            (rq[r].pc = "kvSetReport" /\ rq'[r].pc = "done" /\ resp'[r].status = 200) =>
                /\ RanPipeline(r)
                /\ AskedKey(r) \in DOMAIN kv'
                /\ kv'[AskedKey(r)] = [value |-> resp'[r].body, ttl |-> 1800]
                /\ \A k \in DOMAIN kv \ {AskedKey(r)} : kv'[k] = kv[k]
      ]_vars

\* C17 witness: two requests for the same key both missed, both ran the whole pipeline
\* and both wrote the key, with different reports; the store holds the report of one
\* of them and not the other's
StampedeReached ==
    \E r1, r2 \in Handlers :
        /\ r1 # r2
        /\ \A r \in {r1, r2} :
              /\ Done(r) /\ resp[r].status = 200
              /\ RanPipeline(r)
              /\ gh[r].expand > 0 /\ gh[r].classifier > 0
              /\ gh[r].reportWrites = <<AskedKey(r)>>
        /\ AskedKey(r1) = AskedKey(r2)
        /\ resp[r1].body # resp[r2].body
        /\ kv[AskedKey(r2)].value = resp[r2].body

RECURSIVE SumUps(_)
SumUps(posts) ==
    IF Len(posts) = 0 THEN 0 ELSE posts[1].ups + SumUps(SubSeq(posts, 2, Len(posts)))

\* what one analysis of the post `id` can store: analyzeComments of the replies
\* expandReplies resolved with, for an outcome of the completion request that lets it return
AnalysesOf(id) ==
    LET replies == Take(RepliesOf(id), MaxComments)
    IN  UNION { { analyzeComments(cs, reply).value :
                    reply \in { p \in ClassifierReplies(Len(cs)) :
                                  ~analyzeComments(cs, p).threw } } :
                cs \in {replies, Take(replies, 1)} }

\* the same, tabulated for the posts of the forum
PostIds == {P1.id, P2.id, P3.id}
StorableAnalyses == [id \in PostIds |-> AnalysesOf(id)]

StatFields == {"ridicule", "constructive", "toxic", "neutral", "total"}
ReportFields ==
    {"ignoredPercent", "avgUpvotes", "avgDownvotes", "upvoteRatio", "commentStats",
     "overallMood", "vibeSummary"}

\* C18: under every interleaving of two requests, the accumulators of a request hold
\* exactly the upvotes of its own posts and the sums of the analyses it used itself
\* (no contribution of the other request), the report it answers is computed from
\* them, every value under a report key is a complete report, and every value under a
\* post key is the complete CommentAnalysis that one analysis of that post produces.
ReportsComputedBySingleRequest ==
    /\ \A r \in Handlers :
          LET q == rq[r]
              used == gh[r].perPost
          IN  /\ q.pc \in {"kvGetPost", "expandReplies", "classify", "kvSetPost",
                            "summarize", "kvSetReport"} =>
                    LET begun == IF q.i > Len(q.posts) THEN Len(q.posts) ELSE q.i
                    IN  /\ Len(used) = q.i - 1
                        /\ q.acc.totalUpvotes = SumUps(SubSeq(q.posts, 1, begun))
                        /\ q.acc.totalComments = SumUsed(used, "total")
                        /\ q.acc.ridicule = SumUsed(used, "ridicule")
                        /\ q.acc.constructive = SumUsed(used, "constructive")
                        /\ q.acc.toxic = SumUsed(used, "toxic")
                        /\ q.acc.neutral = SumUsed(used, "neutral")
              /\ (Done(r) /\ resp[r].status = 200 /\ gh[r].seen = <<>>) =>
                    /\ DOMAIN resp[r].body = ReportFields
                    /\ \A f \in StatFields : resp[r].body.commentStats[f] = SumUsed(used, f)
                    /\ Len(q.posts) > 0 =>
                          /\ resp[r].body.avgUpvotes.t = "num"
                          /\ LET avg == resp[r].body.avgUpvotes.n
                                 n == Len(q.posts)
                             IN  /\ 2 * n * avg <= 2 * SumUps(q.posts) + n
                                 /\ 2 * SumUps(q.posts) + n < 2 * n * (avg + 1)
    /\ \A key \in DOMAIN kv :
          IF key \in DOMAIN ReportPart(kv)
          THEN /\ DOMAIN kv[key].value = ReportFields
               /\ DOMAIN kv[key].value.commentStats = StatFields
          ELSE /\ SubSeq(key, 1, 14) = "post_comments:"
               /\ SubSeq(key, 15, Len(key)) \in PostIds
               /\ kv[key].value \in StorableAnalyses[SubSeq(key, 15, Len(key))]

\* C18 witness: two requests for the same key ran the pipeline side by side and both
\* were answered; one of them computed the analysis of a post and the other read that
\* analysis from the store
SharedAnalysisReached ==
    \E r1, r2 \in Handlers :
        /\ r1 # r2
        /\ \A r \in {r1, r2} :
              Done(r) /\ resp[r].status = 200 /\ RanPipeline(r) /\ Len(rq[r].posts) = 2
        /\ AskedKey(r1) = AskedKey(r2)
        /\ \E i \in DOMAIN gh[r1].perPost, j \in DOMAIN gh[r2].perPost :
              /\ gh[r1].perPost[i].id = gh[r2].perPost[j].id
              /\ ~gh[r1].perPost[i].hit /\ gh[r2].perPost[j].hit
              /\ gh[r2].perPost[j].used.total > 0

\* the calls invocation r has started so far: store reads and writes, forum calls,
\* text-generation calls
CallsMade(r) ==
    gh[r].kvReads + Len(gh[r].postWrites) + Len(gh[r].reportWrites) + Len(gh[r].list)
    + gh[r].expand + gh[r].classifier + gh[r].summarizer

LoopPcs == {"kvGetPost", "expandReplies", "classify", "kvSetPost"}

\* C19: within one request the posts are processed one after the other in the order
\* listed. Every step of a request completes at most one call; the cache lookup of a
\* post is followed by expandReplies, then the classifier, then the per-post write,
\* all for that same post; and the request moves to the next post (or past the last)
\* only from the current post's cache hit or completed per-post write, by exactly one.
PostsProcessedInOrder ==
    [][ \A r \in Handlers :
            LET q == rq[r]
                n == rq'[r]
            IN  (started' = started /\ n # q) =>
                  /\ CallsMade(r)' <= CallsMade(r) + 1
                  /\ q.pc \in LoopPcs => n.posts = q.posts
                  /\ n.pc = "expandReplies" => q.pc = "kvGetPost" /\ n.i = q.i
                  /\ n.pc = "classify" => q.pc = "expandReplies" /\ n.i = q.i
                  /\ n.pc = "kvSetPost" => q.pc \in {"expandReplies", "classify"} /\ n.i = q.i
                  /\ n.pc = "kvGetPost" =>
                        \/ q.pc = "listPosts" /\ n.i = 1
                        \/ q.pc \in {"kvGetPost", "kvSetPost"} /\ n.i = q.i + 1
                  /\ n.pc = "summarize" =>
                        \/ q.pc = "listPosts" /\ Len(n.posts) = 0
                        \/ q.pc \in {"kvGetPost", "kvSetPost"} /\ q.i = Len(q.posts)
                  /\ (q.pc \in LoopPcs /\ n.i # q.i) =>
                        /\ n.i = q.i + 1
                        /\ Len(gh'[r].perPost) = q.i
                        /\ gh'[r].perPost[q.i].id = q.posts[q.i].id
                        /\ q.pc = "kvSetPost" =>
                              /\ gh[r].curExpand = 1
                              /\ kv'["post_comments:" \o q.posts[q.i].id].value = q.analysis[1]
      ]_vars

\* C19 witness: while another request is in flight, a request is at the cache lookup
\* of its second post after fetching, classifying and storing the first
SecondPostReached ==
    \E r1, r2 \in Handlers :
        /\ r1 # r2
        /\ rq[r2].pc \in LoopPcs
        /\ rq[r1].pc = "kvGetPost" /\ rq[r1].i = 2
        /\ Len(gh[r1].perPost) = 1
        /\ ~gh[r1].perPost[1].hit
        /\ gh[r1].perPost[1].expand = 1 /\ gh[r1].perPost[1].classify = 1
        /\ gh[r1].postWrites = << "post_comments:" \o rq[r1].posts[1].id >>

\* neutral = total - (constructive + toxic + ridicule)
NeutralEquation(a) == a.neutral = a.total - (a.constructive + a.toxic + a.ridicule)

\* C20: every CommentAnalysis analyzeComments returns (for an empty list, from the
\* classifier's verdicts, from the keyword fallback) has total = the number of comments
\* given and neutral = total - (constructive + toxic + ridicule); so has every analysis
\* in the store, and the commentStats of every report computed, answered or stored
\* satisfies the same equation.
NeutralIsRemainder ==
    /\ \A r \in Handlers :
          /\ \A k \in DOMAIN gh[r].classified :
                LET c == gh[r].classified[k]
                IN  ~c.outcome.threw =>
                        /\ c.outcome.value.total = Len(c.comments)
                        /\ NeutralEquation(c.outcome.value)
          /\ rq[r].pc = "kvSetPost" =>
                /\ rq[r].analysis[1].total = Len(rq[r].comments)
                /\ NeutralEquation(rq[r].analysis[1])
          /\ \A k \in DOMAIN gh[r].perPost : NeutralEquation(gh[r].perPost[k].used)
          /\ \A k \in DOMAIN rq[r].data : NeutralEquation(rq[r].data[k].commentStats)
          /\ \A k \in DOMAIN rq[r].result : NeutralEquation(rq[r].result[k].commentStats)
          /\ (Done(r) /\ resp[r].status = 200) => NeutralEquation(resp[r].body.commentStats)
    /\ \A key \in DOMAIN kv :
          IF key \in DOMAIN ReportPart(kv)
          THEN NeutralEquation(kv[key].value.commentStats)
          ELSE NeutralEquation(kv[key].value)

\* C20 witness: a report was answered that adds an analysis made by the keyword
\* fallback (one ridicule, one constructive among two comments) to one made from the
\* classifier's verdicts
NeutralFromAllPathsReached ==
    \E r \in Handlers :
        /\ Done(r) /\ resp[r].status = 200 /\ gh[r].seen = <<>>
        /\ Len(gh[r].perPost) = 2
        /\ gh[r].perPost[1].used = [ridicule |-> 0, constructive |-> 1, toxic |-> 0,
                                     neutral |-> 0, total |-> 1]
        /\ gh[r].perPost[2].used = fallbackAnalysis(Take(RepliesOf("p2"), 2))
        /\ gh[r].perPost[2].used.ridicule = 1
        /\ resp[r].body.commentStats.total = 3

\* C21 (as claimed): every CommentAnalysis produced, used or stored, and the
\* commentStats of every report, has neutral >= 0.
NeutralNonNegative ==
    /\ \A r \in Handlers :
          /\ \A k \in DOMAIN rq[r].analysis : rq[r].analysis[k].neutral >= 0
          /\ \A k \in DOMAIN rq[r].data : rq[r].data[k].commentStats.neutral >= 0
          /\ (Done(r) /\ resp[r].status = 200) => resp[r].body.commentStats.neutral >= 0
    /\ \A key \in DOMAIN kv :
          IF key \in DOMAIN ReportPart(kv)
          THEN kv[key].value.commentStats.neutral >= 0
          ELSE kv[key].value.neutral >= 0

(*********************** the two ways of classifying ***********************)
\* what each body of CommentPool counts as, read off the keyword lists by hand:
\* <<ridicule, constructive, toxic>>
KeywordLabels(c) ==
    CASE c = Comment("LOL you could try") -> <<1, 1, 0>>
      [] c = Comment("Shut up") -> <<0, 0, 1>>
      [] c = Comment("This is DUMB") -> <<1, 0, 0>>
      [] c = Comment("I suggest a retry") -> <<0, 1, 0>>
      [] c = Comment("what an idiot") -> <<0, 0, 1>>
      [] OTHER -> <<0, 0, 0>>

\* what each verdict of VerdictPool adds: <<ridicule, constructive, toxic>>
VerdictLabels(v) ==
    << IF v.mood = "sarcastic" THEN 1 ELSE 0,
       IF v.constructive = TRUE THEN 1 ELSE 0,
       IF v.toxic = TRUE THEN 1 ELSE 0 >>

\* the j-th label summed over a sequence of label triples
RECURSIVE SumLabels(_, _)
SumLabels(labels, j) ==
    IF Len(labels) = 0 THEN 0
    ELSE labels[1][j] + SumLabels(SubSeq(labels, 2, Len(labels)), j)

KeywordLabelsOf(cs) == [k \in DOMAIN cs |-> KeywordLabels(cs[k])]
VerdictLabelsOf(vs) == [k \in DOMAIN vs |-> VerdictLabels(vs[k])]

\* C22: fallbackAnalysis returns, for every comment list (bodies in any case, several
\* keywords in one body, no body), a CommentAnalysis that depends on the bodies only:
\* ridicule counts the comments with "lol" or "this is dumb" in the lower-cased body,
\* constructive those with "try", "suggest" or "could", toxic those with "idiot" or
\* "shut up", each comment at most once per category, and total is the list length.
FallbackCountsKeywords ==
    app.fn = "fallbackAnalysis" =>
        \A k \in DOMAIN app.out :
            LET cs == app.arg.comments
                a == app.out[k]
            IN  /\ DOMAIN a = StatFields
                /\ a.ridicule = SumLabels(KeywordLabelsOf(cs), 1)
                /\ a.constructive = SumLabels(KeywordLabelsOf(cs), 2)
                /\ a.toxic = SumLabels(KeywordLabelsOf(cs), 3)
                /\ a.total = Len(cs)

\* C22 witness: fallbackAnalysis of an upper-case "LOL you could try" and a comment
\* without body counted one ridicule and one constructive among two comments
FallbackCountsReached ==
    /\ app.fn = "fallbackAnalysis" /\ app.out # <<>>
    /\ app.arg.comments = << Comment("LOL you could try"), NoBodyComment >>
    /\ app.out[1] = [ridicule |-> 1, constructive |-> 1, toxic |-> 0, neutral |-> 0,
                      total |-> 2]

\* the `comments` array of a completion that is JSON with one, <<>> otherwise
VerdictsOf(reply) ==
    IF /\ reply.kind = "choices" /\ Len(reply.choices) > 0 /\ reply.choices[1] # <<>>
       /\ ~IsLit(reply.choices[1][1])
       /\ reply.choices[1][1].jsonOf.t = "object"
       /\ "comments" \in DOMAIN reply.choices[1][1].jsonOf.o
    THEN << reply.choices[1][1].jsonOf.o.comments >>
    ELSE <<>>

\* C23: for a non-empty comment list analyzeComments makes exactly one completion
\* request, and when the completion is JSON with a `comments` array it returns
\* constructive = the entries with constructive true, toxic = those with toxic true,
\* ridicule = those with mood "sarcastic" (no other mood adds to a counter) and
\* total = the number of comments given.
ClassifierCountsVerdicts ==
    app.fn = "analyzeComments" =>
        \A k \in DOMAIN app.out :
            Len(app.arg.comments) > 0 =>
                /\ app.out[k].requests = 1
                /\ \A j \in DOMAIN VerdictsOf(app.arg.reply) :
                      LET vs == VerdictsOf(app.arg.reply)[j]
                          res == app.out[k].result
                      IN  /\ ~res.threw
                          /\ res.value.constructive = SumLabels(VerdictLabelsOf(vs), 2)
                          /\ res.value.toxic = SumLabels(VerdictLabelsOf(vs), 3)
                          /\ res.value.ridicule = SumLabels(VerdictLabelsOf(vs), 1)
                          /\ res.value.total = Len(app.arg.comments)

\* C23 witness: for two comments the classifier answered with an aggressive and a
\* neutral verdict, and only the constructive flag of the first was counted
ClassifierCountsReached ==
    /\ app.fn = "analyzeComments" /\ app.out # <<>>
    /\ Len(app.arg.comments) = 2
    /\ VerdictsOf(app.arg.reply) =
          << << Verdict(TRUE, FALSE, "aggressive"), Verdict(FALSE, FALSE, "neutral") >> >>
    /\ app.out[1].result = Return([ridicule |-> 0, constructive |-> 1, toxic |-> 0,
                                    neutral |-> 1, total |-> 2])

\* C26 (as claimed): in every CommentAnalysis analyzeComments returns, constructive,
\* toxic and ridicule are each between 0 and total, whatever the length of the
\* `comments` array in the classifier's response.
CountsWithinTotal ==
    app.fn = "analyzeComments" =>
        \A k \in DOMAIN app.out :
            LET res == app.out[k].result
            IN  ~res.threw =>
                    /\ res.value.constructive \in 0..res.value.total
                    /\ res.value.toxic \in 0..res.value.total
                    /\ res.value.ridicule \in 0..res.value.total

(************************* requests that fail midway ***********************)
\* the request of handler r has ended in the catch of POST while a post was processed
FailedInLoop(r) ==
    /\ Done(r)
    /\ gh[r].cause \in {"kvGetPost", "expandReplies", "classifier", "kvSetPost"}

\* what a request that failed while processing a post leaves behind
FailedRequestLeavesPostEntries ==
    \A r \in Handlers :
        FailedInLoop(r) =>
            LET done == gh[r].perPost
                fresh == {k \in DOMAIN done : ~done[k].hit}
            IN  /\ resp[r].status # 200
                /\ Len(done) = rq[r].i - 1
                /\ \A k \in DOMAIN done : PostKey(done[k].id) \in DOMAIN kv
                /\ gh[r].reportWrites = <<>>
                /\ Len(gh[r].postWrites) = Cardinality(fresh)
                /\ \A j \in DOMAIN gh[r].postWrites :
                      \E k \in fresh : gh[r].postWrites[j] = PostKey(done[k].id)

\* a lookup of a post's entry that resolves once a request which had finished that
\* post has failed finds the entry: no expandReplies, no classification
RetrySkipsFinishedPosts ==
    \A r, failed \in Handlers :
        ( /\ failed # r
          /\ FailedInLoop(failed)
          /\ rq[r].pc = "kvGetPost"
          /\ gh'[r].kvReads = gh[r].kvReads + 1
          /\ gh'[r].cause = "none"
          /\ \E k \in DOMAIN gh[failed].perPost :
                gh[failed].perPost[k].id = rq[r].posts[rq[r].i].id )
        => /\ rq'[r].pc # "expandReplies"
           /\ Len(gh'[r].perPost) = Len(gh[r].perPost) + 1
           /\ LET e == gh'[r].perPost[Len(gh'[r].perPost)]
              IN  e.present /\ e.hit /\ e.expand = 0 /\ e.classify = 0

\* C25: when a request fails while processing post k (expandReplies, classifier or
\* store error), it is not answered 200, the post_comments entries of the posts
\* 1..k-1 it finished are in the store, it has written no report key and nothing but
\* the entries of the posts it analysed itself; a request that afterwards reaches one
\* of those posts finds the entry and makes no expandReplies or classifier call for it.
FailedRequestKeepsPostEntries ==
    []FailedRequestLeavesPostEntries /\ [][RetrySkipsFinishedPosts]_vars

\* C25 witness: a request failed at its second post in the classifier after storing
\* the first post's analysis, and the other request then took that analysis from the
\* store
FailedThenRetriedReached ==
    \E r, failed \in Handlers :
        /\ failed # r
        /\ FailedInLoop(failed) /\ gh[failed].cause = "classifier"
        /\ rq[failed].i = 2
        /\ Len(gh[failed].postWrites) = 1
        /\ gh[failed].reportWrites = <<>>
        /\ gh[r].lookup = "resolved" /\ gh[r].seen = <<>>
        /\ gh[r].expand = 0 /\ gh[r].classifier = 0
        /\ \E k \in DOMAIN gh[r].perPost :
              /\ gh[r].perPost[k].hit
              /\ gh[r].perPost[k].id = gh[failed].perPost[1].id
              /\ PostKey(gh[r].perPost[k].id) = gh[failed].postWrites[1]

(**************************** the summary call *****************************)
\* C27: a request calls the summarizer at most once; it has called it exactly when
\* it missed the report cache and finished all posts: after the last post's analysis
\* was accumulated and before the report write; never on a report-cache hit, on a 400
\* request, or when the forum fetch or the processing of a post failed.
SummarizerCalledOncePerFreshReport ==
    \A r \in Handlers :
        LET q == rq[r]
            h == gh[r]
        IN  /\ h.summarizer \in {0, 1}
            /\ q.pc = "summarize" =>
                  /\ h.summarizer = 0
                  /\ Len(h.perPost) = Len(q.posts)
                  /\ q.acc.totalComments = SumUsed(h.perPost, "total")
                  /\ q.acc.constructive = SumUsed(h.perPost, "constructive")
            /\ h.summarizer = 1 <=>
                  /\ q.pc \in {"kvSetReport", "done"}
                  /\ h.lookup = "resolved" /\ h.seen = <<>>
                  /\ h.list # <<>>
                  /\ h.cause \in {"none", "kvSetReport"}
                  /\ Len(h.perPost) = Len(q.posts)
            /\ q.pc = "kvSetReport" => h.reportWrites = <<>>
            /\ h.reportWrites # <<>> => h.summarizer = 1
            /\ Done(r) /\ ( \/ resp[r].status = 400
                            \/ h.seen # <<>>
                            \/ h.cause \in {"kvGetReport", "listPosts"}
                            \/ FailedInLoop(r) )
                  => h.summarizer = 0

\* C27 witness: a request that missed the report cache processed two posts, called
\* the summarizer once, stored the report and answered it
SummarizedReached ==
    \E r \in Handlers :
        /\ Done(r) /\ resp[r].status = 200
        /\ gh[r].seen = <<>>
        /\ Len(gh[r].perPost) = 2
        /\ gh[r].summarizer = 1
        /\ gh[r].reportWrites # <<>>

(***************************** expiry of entries ***************************)
\* C24: with requests served one at a time, report entries live at most 1800 s and
\* post entries at most 3600 s; a request that finds the report entry of its
\* (subreddit, filter) makes no upstream call and no write; a request that does not
\* find it (never written, or expired) fetches the post list again, makes no
\* expandReplies and no classifier call for a listed post whose post_comments entry
\* is present, and when it answers 200 it has called the summarizer once and written
\* the report again.
ReportExpiresBeforePostEntries ==
    /\ \A key \in DOMAIN kv :
          /\ kv[key].ttl > 0
          /\ kv[key].ttl <= (IF key \in DOMAIN ReportPart(kv) THEN 30 * 60 ELSE 60 * 60)
    /\ \A r \in Handlers :
          gh[r].lookup = "resolved" =>
              IF gh[r].seen # <<>>
              THEN /\ Done(r)
                   /\ NoUpstreamCalls(r)
                   /\ NoWrites(r)
                   /\ resp[r] = Json(200, gh[r].seen[1])
              ELSE /\ rq[r].pc # "listPosts" => gh[r].list # <<>>
                   /\ \A k \in DOMAIN gh[r].perPost :
                         LET e == gh[r].perPost[k]
                         IN  e.present => e.hit /\ e.expand = 0 /\ e.classify = 0
                   /\ gh[r].curPresent => gh[r].curExpand = 0 /\ gh[r].curClassify = 0
                   /\ (Done(r) /\ resp[r].status = 200) =>
                         /\ gh[r].summarizer = 1
                         /\ gh[r].reportWrites = << AskedKey(r) >>

\* C24 witness: a request stored a report of two posts; after the report entry had
\* expired and before the post entries had, the next request for the same key listed
\* one of the posts, took its analysis from the store without expandReplies or
\* classifier call, called the summarizer and answered a different report
ReportExpiredPostsKeptReached ==
    \E r, earlier \in Handlers :
        /\ earlier # r
        /\ Done(earlier) /\ resp[earlier].status = 200
        /\ gh[earlier].reportWrites # <<>>
        /\ Len(gh[earlier].postWrites) = 2
        /\ Done(r) /\ resp[r].status = 200
        /\ gh[r].reportWrites = gh[earlier].reportWrites
        /\ gh[r].seen = <<>>
        /\ gh[r].list # <<>>
        /\ Len(gh[r].perPost) = 1 /\ gh[r].perPost[1].hit
        /\ gh[r].expand = 0 /\ gh[r].classifier = 0
        /\ gh[r].summarizer = 1
        /\ resp[r].body.avgUpvotes # resp[earlier].body.avgUpvotes

(******************************* the page **********************************)
\* C28: a request of the page answered with a status outside 200..299 (400, 404 or
\* 500) sets the error text "Failed to analyze subreddit" and no data; the page never
\* shows a "... does not exist" message of a 404 body.
NonOkShowsGenericError ==
    /\ ~Includes(ui.error, "does not exist")
    /\ \A c \in DOMAIN ui.calls :
          LET call == ui.calls[c]
          IN  ( /\ call.pc = "settled"
                /\ call.response # <<>>
                /\ call.response[1].status \notin 200..299 )
              => /\ call.shown = << [data |-> <<>>,
                                     error |-> "Failed to analyze subreddit"] >>
                 /\ c = Len(ui.calls) =>
                       ui.error = "Failed to analyze subreddit" /\ ui.data = <<>>

\* C28 witness: the request for r/cats was answered 404 "Subreddit r/cats does not
\* exist" and the page shows "Failed to analyze subreddit"
NotFoundShownGenericReached ==
    \E c \in DOMAIN ui.calls :
        /\ ui.calls[c].pc = "settled"
        /\ ui.calls[c].response = << Json(404, [error |-> "Subreddit r/cats does not exist"]) >>
        /\ c = Len(ui.calls)
        /\ ui.error = "Failed to analyze subreddit"
        /\ ~ui.loading

\* the texts of InputTexts and PageNames without the blanks around them
Trimmed(text) ==
    CASE text \in {"", " ", "  "} -> ""
      [] text = " dogs " -> "dogs"
      [] OTHER -> text

\* C29: with one handleSubmit at a time, an invocation with an empty or blank
\* subreddit changes neither data, loading nor error and sends no request; any other
\* sets loading, clears data to null and error to "" and sends one request for the
\* trimmed name and the filter; when the request settles loading is false and exactly
\* one of data (non-null) and error (non-empty) is set.
SubmitStateDiscipline ==
    /\ ui'.invoked # ui.invoked =>
          IF Trimmed(ui.subreddit) = ""
          THEN /\ ui'.data = ui.data /\ ui'.loading = ui.loading /\ ui'.error = ui.error
               /\ ui'.calls = ui.calls
          ELSE /\ ui'.loading /\ ui'.data = <<>> /\ ui'.error = ""
               /\ ui'.calls = Append(ui.calls,
                                     [pc |-> "fetch",
                                      sent |-> [subreddit |-> Trimmed(ui.subreddit),
                                                filter |-> ui.filter],
                                      response |-> <<>>, shown |-> <<>>])
    /\ \A c \in DOMAIN ui.calls :
          (ui.calls[c].pc # "settled" /\ ui'.calls[c].pc = "settled") =>
              /\ ~ui'.loading
              /\ (ui'.data # <<>>) # (ui'.error # "")

\* C29: the same as a property of the steps
SubmitStateDisciplineHeld == [][SubmitStateDiscipline]_vars

\* C29 witness: a blank submit did nothing, the next one sent " dogs " trimmed and
\* its report is shown, with no error and loading false
BlankThenReportReached ==
    /\ ui.invoked = 2
    /\ Len(ui.calls) = 1
    /\ ui.calls[1].pc = "settled"
    /\ ui.calls[1].sent.subreddit = "dogs"
    /\ ui.data # <<>> /\ ui.error = "" /\ ~ui.loading

\* C30 (as claimed): what the page shows belongs to the analysis started last: while
\* that one is pending the page is loading with no data and no error, and once it has
\* settled the page shows its result.
LatestAnalysisShown ==
    LET latest == Len(ui.calls)
    IN  latest > 0 =>
            IF ui.calls[latest].pc # "settled"
            THEN ui.loading /\ ui.data = <<>> /\ ui.error = ""
            ELSE /\ ~ui.loading
                 /\ ui.calls[latest].shown = << [data |-> ui.data, error |-> ui.error] >>

====
